---- MODULE Spec2Model ----
(***************************************************************************)
(* A model of the sinatra backend's note pipeline and sample compositor.   *)
(*                                                                         *)
(*  - vocal_to_midi (services/transcription.py): the post-processing of    *)
(*    the raw note list of one instrument, one action per numbered step    *)
(*    of the source, in source order.                                      *)
(*  - upload_vocal (main.py): the caller that picks the tempo.             *)
(*  - render_with_sample (services/sampler.py): allocation of the output   *)
(*    buffer, one action per note of the loop, normalization.              *)
(*                                                                         *)
(* Times are integers in milliseconds (0.1 s = 100, 0.06 s = 60, 0.25 s =  *)
(* 250) and the arithmetic is exact; the source computes in binary         *)
(* floating point.  A raw pitch is given in half semitones, so that the    *)
(* rounding of step 2 has fractional inputs; from step 2 on a pitch is a   *)
(* whole MIDI number.  Audio buffers are sequences of integer amplitudes   *)
(* at ModelRate samples per second, which stands for SAMPLE_RATE.          *)
(***************************************************************************)
EXTENDS Integers, Sequences, FiniteSets, TLC

VARIABLES
    pc,         \* position in vocal_to_midi: the step to run next
    notes,      \* inst.notes of the one instrument
    before,     \* history: inst.notes as it was before the step that ran last
    drum_bpm,   \* session["drum_bpm"]: <<>> is None, <<b>> a detected tempo
    bpm,        \* vocal_to_midi's bpm argument
    key,        \* vocal_to_midi's key argument
    scale,      \* vocal_to_midi's scale argument
    quantize,   \* vocal_to_midi's quantize argument
    r_pc,       \* position in render_with_sample
    midi,       \* the notes of the MIDI file, instrument after instrument
    sample,     \* the one-shot sample, as loaded
    base_pitch, \* the sample's pitch, in hundredths of a semitone
    output,     \* the output buffer
    total_notes,\* the loop's counter: the notes placed so far
    uploads,    \* the files written to UPLOAD_DIR: [name, data]
    midi_path,  \* what vocal_to_midi returned: <<>> nothing yet, <<name>>
    output_path,\* what render_with_sample returned: <<>> or <<name>>
    c_pc,       \* position in the chord generator
    request,    \* the chord request, or the arguments of a direct call
    chord_idx,  \* the chord loop's index, from 0
    c_notes,    \* midi_instrument.notes of the chord generator
    response,   \* what the chord generator's caller gets
    renders,    \* the locals of each of the concurrent render calls
    s_pc,       \* position of the note segmenter
    frames,     \* the frame series: one rounded pitch per frame, 0 inactive
    frame_idx,  \* the frames walked so far
    holding,    \* <<>> Idle, <<pitch, start>> Holding(pitch)
    seg_notes,  \* the notes the segmenter has closed and kept
    session,    \* main.py's session: each path <<>> (None) or <<path>>
    http        \* the reply to the last request: <<>> or [status, detail]

args == <<drum_bpm, bpm, key, scale, quantize>>
pvars == <<pc, notes, before, args>>
rvars == <<r_pc, midi, sample, base_pitch, output, total_notes>>
fvars == <<uploads, midi_path, output_path>>
cvars == <<c_pc, request, chord_idx, c_notes, response>>
kvars == <<renders>>
svars == <<s_pc, frames, frame_idx, holding, seg_notes>>
hvars == <<session, http>>
vars == <<pvars, rvars, fvars, cvars, kvars, svars, hvars>>

\* what a step of vocal_to_midi, of render_with_sample leaves alone
outside_pipeline == <<rvars, cvars, kvars, svars, hvars>>
outside_render == <<pvars, cvars, kvars, svars, hvars>>

-----------------------------------------------------------------------------
(* Program constants, in the model's units.                                *)

MIN_NOTE_DURATION_MS == 100
MIN_VELOCITY == 40
MERGE_GAP_MS == 60
MAX_NOTES_PER_SECOND == 8
WINDOW_MS == 250
DEFAULT_BPM == 120
MS_PER_MINUTE == 60000

-----------------------------------------------------------------------------
(* Arithmetic helpers.                                                     *)

Min2(a, b) == IF a <= b THEN a ELSE b
Max2(a, b) == IF a >= b THEN a ELSE b

MaxOver(S) == CHOOSE x \in S : \A y \in S : y <= x
MinOver(S) == CHOOSE x \in S : \A y \in S : x <= y

\* floor(n / d) for d > 0 and any integer n
FloorDiv(n, d) == IF n >= 0 THEN n \div d ELSE -(((-n) + d - 1) \div d)

\* Python's round(n / d) for d > 0: to the nearest integer, ties to even.
RoundHalfEven(n, d) ==
    LET q == FloorDiv(n, d)
        r == n - q * d
    IN  IF 2 * r < d THEN q
        ELSE IF 2 * r > d THEN q + 1
        ELSE IF q % 2 = 0 THEN q ELSE q + 1

\* round(n / d) for any d # 0
PyRound(n, d) == IF d > 0 THEN RoundHalfEven(n, d) ELSE RoundHalfEven(-n, -d)

-----------------------------------------------------------------------------
(* Lookup tables.                                                          *)

SCALE_INTERVALS(s) ==
    CASE s = "major" -> {0, 2, 4, 5, 7, 9, 11}
      [] s = "minor" -> {0, 2, 3, 5, 7, 8, 10}
      [] OTHER       -> 0 .. 11

KEY_OFFSETS(k) ==
    CASE k = "C" -> 0
      [] k \in {"C#", "Db"} -> 1
      [] k = "D" -> 2
      [] k \in {"D#", "Eb"} -> 3
      [] k = "E" -> 4
      [] k = "F" -> 5
      [] k \in {"F#", "Gb"} -> 6
      [] k = "G" -> 7
      [] k \in {"G#", "Ab"} -> 8
      [] k = "A" -> 9
      [] k \in {"A#", "Bb"} -> 10
      [] k = "B" -> 11
      [] OTHER -> 0

_build_scale_set(k, s) ==
    LET root == KEY_OFFSETS(k)
        pitch_classes == {(root + i) % 12 : i \in SCALE_INTERVALS(s)}
    IN  {m \in 0 .. 127 : m % 12 \in pitch_classes}

\* Mutant of SnapSearch: -offset is tried before +offset.
RECURSIVE SnapSearchDownFirst(_, _, _)
SnapSearchDownFirst(pitch, valid_notes, offset) ==
    IF offset > 6 THEN pitch
    ELSE IF (pitch - offset) \in valid_notes THEN pitch - offset
    ELSE IF (pitch + offset) \in valid_notes THEN pitch + offset
    ELSE SnapSearchDownFirst(pitch, valid_notes, offset + 1)

RECURSIVE SnapSearch(_, _, _)
SnapSearch(pitch, valid_notes, offset) ==
    IF offset > 6 THEN pitch
    ELSE IF (pitch + offset) \in valid_notes THEN pitch + offset
    ELSE IF (pitch - offset) \in valid_notes THEN pitch - offset
    ELSE SnapSearch(pitch, valid_notes, offset + 1)

\* Mutant of _snap_to_scale: the test for a pitch that is in the scale is
\* forgotten, the search starts at once.
_snap_always_search(pitch, valid_notes) == SnapSearch(pitch, valid_notes, 1)

_snap_to_scale(pitch, valid_notes) ==
    IF pitch \in valid_notes THEN pitch ELSE SnapSearch(pitch, valid_notes, 1)

Subdivisions(q) ==
    CASE q = "1/4" -> 1
      [] q = "1/8" -> 2
      [] q = "1/16" -> 4
      [] q = "1/32" -> 8
      [] OTHER -> 1

\* 60.0 / bpm / subdivisions_per_beat, in ms; b # 0.  Exact for the tempos
\* the model draws (BpmExact).
GridSize(b, q) ==
    IF b > 0 THEN MS_PER_MINUTE \div (b * Subdivisions(q))
    ELSE -(MS_PER_MINUTE \div ((-b) * Subdivisions(q)))

BpmExact(b) == b # 0 /\ \A q \in {"1/4", "1/32"} :
    MS_PER_MINUTE % ((IF b > 0 THEN b ELSE -b) * Subdivisions(q)) = 0

\* Mutant of _quantize_time: the time is divided by the beat, not the grid cell.
_quantize_time_by_beat(t, b, q) ==
    PyRound(t, GridSize(b, "1/4")) * GridSize(b, q)

\* Mutant of _quantize_time: the time is moved down to the grid line before it.
_quantize_time_floor(t, b, q) == FloorDiv(t, GridSize(b, q)) * GridSize(b, q)

\* _quantize_time for quantize # "off" and bpm # 0
_quantize_time(t, b, q) ==
    LET grid_size == GridSize(b, q)
    IN  PyRound(t, grid_size) * grid_size

-----------------------------------------------------------------------------
(* The steps of the post-processing, as functions of the note list.        *)

Note(p, s, e, v) == [pitch |-> p, start |-> s, end |-> e, velocity |-> v]

\* step 2: int(round(max(0, min(127, pitch)))), the raw pitch in half semitones
RoundPitch(p2) == RoundHalfEven(Max2(0, Min2(254, p2)), 2)

RoundPitches(ns) == [i \in 1 .. Len(ns) |-> [ns[i] EXCEPT !.pitch = RoundPitch(@)]]

\* step 3
Keep(n) == (n.end - n.start) >= MIN_NOTE_DURATION_MS /\ n.velocity >= MIN_VELOCITY

DropShortQuiet(ns) == SelectSeq(ns, Keep)

Last(s) == s[Len(s)]
Front(s) == SubSeq(s, 1, Len(s) - 1)

\* list.sort(key = start): stable
RECURSIVE InsertByStart(_, _)
InsertByStart(sorted, n) ==
    IF sorted = <<>> THEN <<n>>
    ELSE IF Last(sorted).start <= n.start THEN Append(sorted, n)
    ELSE Append(InsertByStart(Front(sorted), n), Last(sorted))

RECURSIVE SortByStart(_)
SortByStart(ns) ==
    IF ns = <<>> THEN <<>>
    ELSE InsertByStart(SortByStart(Front(ns)), Last(ns))

\* Mutant of ShouldMerge: the gap threshold is forgotten, only overlaps merge.
ShouldMergeOverlapOnly(prev, note) ==
    note.pitch = prev.pitch /\ (note.start - prev.end) < 0

\* Mutant of ShouldMerge: a gap of exactly the threshold merges too.
ShouldMergeAtThreshold(prev, note) ==
    note.pitch = prev.pitch /\ (note.start - prev.end) <= MERGE_GAP_MS

\* step 5, the test of the loop body: prev is merged[-1]
ShouldMerge(prev, note) ==
    note.pitch = prev.pitch /\ (note.start - prev.end) < MERGE_GAP_MS

\* step 5, "Extend the previous note"
ExtendPrev(prev, note) ==
    [prev EXCEPT !.end = Max2(prev.end, note.end),
                 !.velocity = Max2(prev.velocity, note.velocity)]

\* step 5: the merge loop, merged being the list built so far
RECURSIVE MergeLoop(_, _)
MergeLoop(merged, rest) ==
    IF rest = <<>> THEN merged
    ELSE LET note == Head(rest)
         IN  IF merged # <<>> /\ ShouldMerge(Last(merged), note)
             THEN MergeLoop(Append(Front(merged), ExtendPrev(Last(merged), note)),
                            Tail(rest))
             ELSE MergeLoop(Append(merged, note), Tail(rest))

\* Mutant of MergeNotes: each note is compared with the note before it in the
\* input list instead of with merged[-1] as extended so far.
RECURSIVE MergeLoopPrevInput(_, _, _)
MergeLoopPrevInput(merged, prev, rest) ==
    IF rest = <<>> THEN merged
    ELSE LET note == Head(rest)
         IN  IF merged # <<>> /\ ShouldMerge(prev, note)
             THEN MergeLoopPrevInput(
                    Append(Front(merged), ExtendPrev(Last(merged), note)),
                    note, Tail(rest))
             ELSE MergeLoopPrevInput(Append(merged, note), note, Tail(rest))

MergeNotesPrevInput(ns) == MergeLoopPrevInput(<<>>, <<>>, ns)

MergeNotes(ns) == MergeLoop(<<>>, ns)

\* list.sort(key = velocity, reverse = True): stable, loudest first
RECURSIVE InsertByVelocity(_, _)
InsertByVelocity(sorted, n) ==
    IF sorted = <<>> THEN <<n>>
    ELSE IF Last(sorted).velocity >= n.velocity THEN Append(sorted, n)
    ELSE Append(InsertByVelocity(Front(sorted), n), Last(sorted))

\* Mutant of SortByVelocityDesc: reverse = True is forgotten, quietest first.
RECURSIVE SortByVelocityAsc(_)
SortByVelocityAsc(ns) ==
    IF ns = <<>> THEN <<>>
    ELSE LET rest == SortByVelocityAsc(Front(ns))
             n == Last(ns)
             k == Cardinality({i \in DOMAIN rest : rest[i].velocity <= n.velocity})
         IN  SubSeq(rest, 1, k) \o <<n>> \o SubSeq(rest, k + 1, Len(rest))

RECURSIVE SortByVelocityDesc(_)
SortByVelocityDesc(ns) ==
    IF ns = <<>> THEN <<>>
    ELSE InsertByVelocity(SortByVelocityDesc(Front(ns)), Last(ns))

\* Mutant of MaxPerWindow: the factor 0.25 is forgotten.
MaxPerWindowPerSecond == Max2(2, MAX_NOTES_PER_SECOND)

\* max(2, int(MAX_NOTES_PER_SECOND * 0.25))
MaxPerWindow == Max2(2, MAX_NOTES_PER_SECOND \div 4)

\* window_notes.sort(...); filtered.extend(window_notes[:max_per_window])
FlushWindow(filtered, window_notes) ==
    LET s == SortByVelocityDesc(window_notes)
    IN  filtered \o SubSeq(s, 1, Min2(Len(s), MaxPerWindow))

\* step 6, the loop over inst.notes and the flush of the last window
RECURSIVE WindowLoop(_, _, _, _)
WindowLoop(filtered, window_start, window_notes, rest) ==
    IF rest = <<>> THEN FlushWindow(filtered, window_notes)
    ELSE LET note == Head(rest)
         IN  IF note.start >= window_start + WINDOW_MS
             THEN WindowLoop(FlushWindow(filtered, window_notes),
                             note.start, <<note>>, Tail(rest))
             ELSE WindowLoop(filtered, window_start,
                             Append(window_notes, note), Tail(rest))

\* the guard of step 6: notes_per_sec = len / duration > MAX_NOTES_PER_SECOND
CapApplies(ns) ==
    /\ ns # <<>>
    /\ Last(ns).end - ns[1].start > 0
    /\ Len(ns) * 1000 > MAX_NOTES_PER_SECOND * (Last(ns).end - ns[1].start)

\* Mutant of DensityCap: the first window opens at the time origin, not at
\* the first note's start.
DensityCapFromOrigin(ns) ==
    IF CapApplies(ns)
    THEN SortByStart(WindowLoop(<<>>, 0, <<>>, ns))
    ELSE ns

DensityCap(ns) ==
    IF CapApplies(ns)
    THEN SortByStart(WindowLoop(<<>>, ns[1].start, <<>>, ns))
    ELSE ns

\* scale snapping
SnapNotes(ns, k, s) ==
    IF s # "chromatic"
    THEN LET valid_notes == _build_scale_set(k, s)
         IN  [i \in 1 .. Len(ns) |->
                [ns[i] EXCEPT !.pitch = _snap_to_scale(@, valid_notes)]]
    ELSE ns

\* Mutant of QuantizeNote: the minimum duration after quantization is not
\* enforced.
QuantizeNoteNoMinimum(n, b, q) ==
    [n EXCEPT !.start = _quantize_time(n.start, b, q),
              !.end = _quantize_time(n.end, b, q)]

\* time quantization of one note, for quantize # "off" and bpm # 0
QuantizeNote(n, b, q) ==
    LET q_start == _quantize_time(n.start, b, q)
        q_end == _quantize_time(n.end, b, q)
    IN  [n EXCEPT !.start = q_start,
                  !.end = IF q_end <= q_start THEN q_start + GridSize(b, q) ELSE q_end]

QuantizeNotes(ns, b, q) == [i \in 1 .. Len(ns) |-> QuantizeNote(ns[i], b, q)]

\* 60.0 / bpm raises ZeroDivisionError as soon as a note is quantized
QuantizeRaises(ns, b, q) == q # "off" /\ ns # <<>> /\ b = 0

-----------------------------------------------------------------------------
(* Files.  A path is <<stem, extension>>; uuid4 gives a stem that no file  *)
(* has.                                                                    *)

\* how many stems uuid4 has to give
NumStems == 2

Stems == 1 .. NumStems

\* Mutant of generate_filepath: one fixed name per extension.
generate_filepath_fixed(files, extension) == {<<1, extension>>}

\* the paths generate_filepath can return
generate_filepath(files, extension) ==
    {<<u, extension>> : u \in Stems \ {f.name[1] : f \in files}}

\* a file written at path, replacing the file that had the path
Write(files, path, data) ==
    {f \in files : f.name # path} \cup {[name |-> path, data |-> data]}

-----------------------------------------------------------------------------
(* upload_vocal and vocal_to_midi as a state machine.  pc is the step that *)
(* runs next: "upload_vocal" (the endpoint, before it calls vocal_to_midi),*)
(* "round" (step 2), "drop" (3), "sort" (4), "merge" (5), "density" (6),   *)
(* "snap", "quantize", then "done" (the note list is written and its path  *)
(* returned) or "error" (an exception left vocal_to_midi).                 *)

\* session.get("drum_bpm") or 120: None and 0 are both falsy
SessionBpm(d) == IF d = <<>> \/ d[1] = 0 THEN DEFAULT_BPM ELSE d[1]

upload_vocal ==
    /\ pc = "upload_vocal"
    /\ bpm' = SessionBpm(drum_bpm)
    /\ pc' = "round"
    /\ UNCHANGED <<notes, before, drum_bpm, key, scale, quantize>>
    /\ UNCHANGED <<outside_pipeline, fvars>>

StepRound ==
    /\ pc = "round"
    /\ notes' = RoundPitches(notes)
    /\ pc' = "drop"
    /\ before' = notes
    /\ UNCHANGED <<args, outside_pipeline, fvars>>

\* Mutant of StepDrop: the notes are merged before the short and quiet ones
\* are dropped.
StepDropAfterMerge ==
    /\ pc = "drop"
    /\ notes' = DropShortQuiet(MergeNotes(SortByStart(notes)))
    /\ pc' = "sort"
    /\ before' = notes
    /\ UNCHANGED <<args, outside_pipeline, fvars>>

StepDrop ==
    /\ pc = "drop"
    /\ notes' = DropShortQuiet(notes)
    /\ pc' = "sort"
    /\ before' = notes
    /\ UNCHANGED <<args, outside_pipeline, fvars>>

StepSort ==
    /\ pc = "sort"
    /\ notes' = SortByStart(notes)
    /\ pc' = "merge"
    /\ before' = notes
    /\ UNCHANGED <<args, outside_pipeline, fvars>>

StepMerge ==
    /\ pc = "merge"
    /\ notes' = MergeNotes(notes)
    /\ pc' = "density"
    /\ before' = notes
    /\ UNCHANGED <<args, outside_pipeline, fvars>>

StepDensity ==
    /\ pc = "density"
    /\ notes' = DensityCap(notes)
    /\ pc' = "snap"
    /\ before' = notes
    /\ UNCHANGED <<args, outside_pipeline, fvars>>

StepSnap ==
    /\ pc = "snap"
    /\ notes' = SnapNotes(notes, key, scale)
    /\ pc' = "quantize"
    /\ before' = notes
    /\ UNCHANGED <<args, outside_pipeline, fvars>>

StepQuantize ==
    /\ pc = "quantize"
    /\ IF QuantizeRaises(notes, bpm, quantize)
       THEN /\ pc' = "error" /\ notes' = notes
            /\ UNCHANGED <<uploads, midi_path>>
       ELSE /\ pc' = "done"
            /\ notes' = IF quantize = "off" THEN notes
                        ELSE QuantizeNotes(notes, bpm, quantize)
            /\ \E path \in generate_filepath(uploads, "mid") :
                 /\ uploads' = Write(uploads, path, notes')
                 /\ midi_path' = <<path>>
    /\ before' = notes
    /\ UNCHANGED <<args, outside_pipeline, output_path>>

Next ==
    \/ upload_vocal
    \/ StepRound
    \/ StepDrop
    \/ StepSort
    \/ StepMerge
    \/ StepDensity
    \/ StepSnap
    \/ StepQuantize

-----------------------------------------------------------------------------
(* Inputs.                                                                 *)

MaxNotes == 3

RECURSIVE SeqsUpTo(_, _)
SeqsUpTo(S, n) ==
    IF n = 0 THEN {<<>>}
    ELSE LET shorter == SeqsUpTo(S, n - 1)
         IN  shorter \cup {Append(s, x) : s \in {t \in shorter : Len(t) = n - 1}, x \in S}

\* raw pitches in half semitones: below 0, 61, 61.5, above 127
RawPitches == {-3, 122, 123, 257}
RawStarts == {0, 130}

\* notes that pass step 3, one loud and longer, one too short, one too quiet
RawNotes ==
    {Note(p, s, s + 100, 100) : p \in RawPitches, s \in RawStarts}
    \cup {Note(122, 0, 120, 127), Note(122, 130, 190, 100), Note(123, 0, 100, 39)}

\* the form fields of upload_vocal with the session's tempo
UploadConfigs ==
    { [drum_bpm |-> <<>>,   key |-> "C", scale |-> "chromatic", quantize |-> "off"],
      [drum_bpm |-> <<0>>,  key |-> "C", scale |-> "major",     quantize |-> "1/16"],
      [drum_bpm |-> <<60>>, key |-> "D", scale |-> "minor",     quantize |-> "1/16"],
      [drum_bpm |-> <<100>>, key |-> "C", scale |-> "major",    quantize |-> "1/4"] }

\* the arguments of a direct call of vocal_to_midi
DirectConfigs ==
    { [bpm |-> -60, key |-> "C",  scale |-> "chromatic", quantize |-> "1/16"],
      [bpm |-> 0,   key |-> "C",  scale |-> "major",     quantize |-> "1/8"],
      [bpm |-> 60,  key |-> "Bb", scale |-> "minor",     quantize |-> "1/32"] }

\* nothing written, nothing returned
NoFiles ==
    /\ uploads = {}
    /\ midi_path = <<>>
    /\ output_path = <<>>

\* the session as main.py creates it, and no request answered
NoPath == <<>>

SessionIdle ==
    /\ session = [vocal_path |-> NoPath, midi_path |-> NoPath,
                  rendered_path |-> NoPath, sample_path |-> NoPath]
    /\ http = <<>>

\* no chord generation is in progress
ChordsIdle ==
    /\ c_pc = "idle"
    /\ request = <<>>
    /\ chord_idx = 0
    /\ c_notes = <<>>
    /\ response = <<>>

\* no concurrent renders
ConcurrentIdle == renders = <<>>

\* no segmentation is in progress
SegmenterIdle ==
    /\ s_pc = "idle"
    /\ frames = <<>>
    /\ frame_idx = 0
    /\ holding = <<>>
    /\ seg_notes = <<>>

\* no render_with_sample call is in progress
RenderIdle ==
    /\ r_pc = "idle"
    /\ midi = <<>>
    /\ sample = <<>>
    /\ base_pitch = 0
    /\ output = <<>>
    /\ total_notes = 0

InitUpload(raws, configs) ==
    /\ RenderIdle /\ NoFiles /\ ChordsIdle /\ ConcurrentIdle /\ SegmenterIdle /\ SessionIdle
    /\ pc = "upload_vocal"
    /\ notes \in raws
    /\ before = notes
    /\ \E c \in configs :
         /\ drum_bpm = c.drum_bpm
         /\ key = c.key
         /\ scale = c.scale
         /\ quantize = c.quantize
    /\ bpm = DEFAULT_BPM

InitDirect(raws, configs) ==
    /\ RenderIdle /\ NoFiles /\ ChordsIdle /\ ConcurrentIdle /\ SegmenterIdle /\ SessionIdle
    /\ pc = "round"
    /\ notes \in raws
    /\ before = notes
    /\ \E c \in configs :
         /\ bpm = c.bpm
         /\ key = c.key
         /\ scale = c.scale
         /\ quantize = c.quantize
    /\ drum_bpm = <<>>

Init ==
    \/ InitUpload(SeqsUpTo(RawNotes, MaxNotes), UploadConfigs)
    \/ InitDirect(SeqsUpTo(RawNotes, MaxNotes), DirectConfigs)

Spec == Init /\ [][Next]_vars

-----------------------------------------------------------------------------
(* Inputs that exercise one step: the same state machine, entered through  *)
(* upload_vocal, on raw lists that are already ordered by start (step 4    *)
(* hands every later step such a list, whatever the raw order was).        *)

\* the sequences over S of length <= n with non-decreasing start
RECURSIVE SortedSeqsUpTo(_, _)
SortedSeqsUpTo(S, n) ==
    IF n = 0 THEN {<<>>}
    ELSE LET shorter == SortedSeqsUpTo(S, n - 1)
         IN  shorter \cup
             UNION { {Append(s, x) : x \in {y \in S : s = <<>> \/ Last(s).start <= y.start}}
                     : s \in {t \in shorter : Len(t) = n - 1} }

PlainConfig ==
    { [drum_bpm |-> <<>>, key |-> "C", scale |-> "chromatic", quantize |-> "off"] }

\* --- the merge step: two pitches, gaps of 50, 60 and 70 ms after a note
\* that ends at 100 ms, a long note that contains the next one
MaxMergeNotes == 3

MergeShapes == {<<100, 40>>, <<100, 100>>, <<300, 60>>}

MergeRawNotes ==
    {Note(p, s, s + sh[1], sh[2]) :
        p \in {120, 124}, s \in {0, 150, 160, 170}, sh \in MergeShapes}

InitMerge == InitUpload(SortedSeqsUpTo(MergeRawNotes, MaxMergeNotes), PlainConfig)

SpecMerge == InitMerge /\ [][Next]_vars

\* --- the density cap: every start has its own pitch, so that only notes of
\* equal start merge; a window that opens at 251 ms and the three starts
\* 500, 501, 502 around its end; and runs of notes 50 ms apart
MaxCapNotes == 5
MaxRunNotes == 8

CapStarts == <<0, 251, 500, 501, 502>>

CapRawNotes ==
    {Note(120 + 2 * k, CapStarts[k], CapStarts[k] + 100, v) :
        k \in DOMAIN CapStarts, v \in {50, 90}}

\* n notes 50 ms apart, alternating between two pitches
RunNotes(n) ==
    {[i \in 1 .. n |-> Note(120 + 4 * (i % 2), 50 * (i - 1), 50 * (i - 1) + 100, v[i])] :
        v \in [1 .. n -> {50, 90}]}

InitCap ==
    \/ InitUpload(SortedSeqsUpTo(CapRawNotes, MaxCapNotes), PlainConfig)
    \/ InitUpload(UNION {RunNotes(n) : n \in 1 .. MaxRunNotes}, PlainConfig)

SpecCap == InitCap /\ [][Next]_vars

\* --- quantization: times on, between and halfway between grid lines, at
\* three tempos and every grid
MaxQuantNotes == 2

QuantStarts == <<0, 125, 130, 375>>

QuantRawNotes ==
    {Note(120 + 2 * k, QuantStarts[k], QuantStarts[k] + d, 100) :
        k \in DOMAIN QuantStarts, d \in {100, 130, 1000}}

QuantConfigs ==
    { [drum_bpm |-> <<b>>, key |-> "C", scale |-> "chromatic", quantize |-> q] :
        b \in {60, 75, 100}, q \in {"off", "1/4", "1/8", "1/16", "1/32"} }

InitQuant == InitUpload(SeqsUpTo(QuantRawNotes, MaxQuantNotes), QuantConfigs)

SpecQuant == InitQuant /\ [][Next]_vars

\* --- the scale snap: every pitch of the MIDI range as the first note, the
\* top pitches after it, in every key of the key table and every scale
MaxSnapNotes == 2

Keys == {"C", "C#", "Db", "D", "D#", "Eb", "E", "F", "F#", "Gb", "G", "G#", "Ab",
         "A", "A#", "Bb", "B"}

Scales == {"major", "minor", "chromatic"}

\* n notes half a second apart: the pitch p, then 127, 126, ...
SnapList(p, n) ==
    [i \in 1 .. n |-> Note(2 * (IF i = 1 THEN p ELSE 129 - i),
                           500 * (i - 1), 500 * (i - 1) + 200, 100)]

SnapRawNotes == {SnapList(p, n) : p \in 0 .. 127, n \in 1 .. MaxSnapNotes}

SnapConfigs ==
    { [drum_bpm |-> <<>>, key |-> k, scale |-> s, quantize |-> "off"] :
        k \in Keys, s \in Scales }

InitSnap == InitUpload(SnapRawNotes, SnapConfigs)

SpecSnap == InitSnap /\ [][Next]_vars

-----------------------------------------------------------------------------
(* render_with_sample.  r_pc: "load" (the call has its arguments), "loop"  *)
(* (the buffer is allocated, the notes are being placed), "normalize",     *)
(* "done" (the buffer is written and its path returned).  Before           *)
(* normalization an amplitude is in units of the sample's; after it, in    *)
(* thousandths of full scale.                                              *)

\* samples per second of the model's buffers
ModelRate == 200

PADDING_MS == 1000
EMPTY_END_TIME_MS == 1000
FADE_MS == 10
PEAK_MILLI == 900

Zeros(n) == [i \in 1 .. n |-> 0]

\* int(seconds * sr) for a time >= 0 in ms
ToSamples(ms) == (ms * ModelRate) \div 1000

\* pretty_midi's get_end_time(): the latest note end, 0 without notes
EndTime(ns) == IF ns = <<>> THEN 0 ELSE MaxOver({ns[i].end : i \in DOMAIN ns})

\* Mutant of OutputLength: an empty file is not given the end time 1.0.
OutputLengthNoDefault(ns) == ToSamples(EndTime(ns) + PADDING_MS)

\* Mutant of OutputLength: the second of padding is forgotten.
OutputLengthNoPadding(ns) ==
    ToSamples(IF EndTime(ns) <= 0 THEN EMPTY_END_TIME_MS ELSE EndTime(ns))

\* end_time, its replacement when <= 0, and output_length
OutputLength(ns) ==
    LET end_time == IF EndTime(ns) <= 0 THEN EMPTY_END_TIME_MS ELSE EndTime(ns)
    IN  ToSamples(end_time + PADDING_MS)

\* librosa.effects.pitch_shift: outside the repository.  It returns a buffer
\* of the input's length; the model keeps the input's amplitudes.
PitchShift(y, n_steps) == y

\* n_steps = note.pitch - base_pitch, in hundredths of a semitone
NSteps(note, base) == 100 * note.pitch - base

Abs(x) == IF x < 0 THEN -x ELSE x

\* the pitch shift of a buffer without samples raises in librosa's stft
PitchShiftRaises(y, n_steps) == y = <<>>

\* Mutant of ShiftRaises: the exception is caught and the sample used as is.
ShiftRaisesCaught(y, note, base) == FALSE

\* the note's pitch shift is asked for and raises
ShiftRaises(y, note, base) ==
    Abs(NSteps(note, base)) >= 1 /\ PitchShiftRaises(y, NSteps(note, base))

Shifted(y, note, base) ==
    IF Abs(NSteps(note, base)) < 1 THEN y ELSE PitchShift(y, NSteps(note, base))

\* shifted * (velocity / 127.0); exact for amplitudes that are multiples of 127
VelocityScaled(y, note) == [i \in DOMAIN y |-> (y[i] * note.velocity) \div 127]

NoteDurSamples(note) == ToSamples(note.end - note.start)

\* np.linspace(1.0, 0.0, fade_len)[k], k from 1, times x
FadeAt(x, k, fade_len) ==
    IF fade_len = 1 THEN x ELSE (x * (fade_len - k)) \div (fade_len - 1)

\* Mutant of Trimmed: a buffer shorter than the note is repeated to the
\* note's length.
TrimmedLooping(y, note) ==
    IF Len(y) > NoteDurSamples(note)
    THEN LET n == NoteDurSamples(note)
             fade_len == Min2(ToSamples(FADE_MS), n)
         IN  [i \in 1 .. n |->
                IF i > n - fade_len THEN FadeAt(y[i], i - (n - fade_len), fade_len)
                ELSE y[i]]
    ELSE IF y = <<>> THEN y
    ELSE [i \in 1 .. NoteDurSamples(note) |-> y[((i - 1) % Len(y)) + 1]]

\* the trim and the fade-out of a buffer longer than the note
Trimmed(y, note) ==
    IF Len(y) > NoteDurSamples(note)
    THEN LET n == NoteDurSamples(note)
             fade_len == Min2(ToSamples(FADE_MS), n)
         IN  [i \in 1 .. n |->
                IF i > n - fade_len THEN FadeAt(y[i], i - (n - fade_len), fade_len)
                ELSE y[i]]
    ELSE y

\* what one note adds to the buffer
Contribution(y, note, base) == Trimmed(VelocityScaled(Shifted(y, note, base), note), note)

StartSample(note) == ToSamples(note.start)

\* Mutant of Place: the slice is assigned, not added to.
PlaceReplacing(out, start_sample, shifted) ==
    LET end_sample == start_sample + Len(shifted)
        grown == IF end_sample > Len(out)
                 THEN out \o Zeros(end_sample - Len(out)) ELSE out
    IN  [i \in DOMAIN grown |->
           IF i > start_sample /\ i <= end_sample
           THEN shifted[i - start_sample] ELSE grown[i]]

\* np.pad when end_sample > len(output), then output[start:end] += shifted
Place(out, start_sample, shifted) ==
    LET end_sample == start_sample + Len(shifted)
        grown == IF end_sample > Len(out)
                 THEN out \o Zeros(end_sample - Len(out)) ELSE out
    IN  [i \in DOMAIN grown |->
           IF i > start_sample /\ i <= end_sample
           THEN grown[i] + shifted[i - start_sample] ELSE grown[i]]

Peak(out) == IF out = <<>> THEN 0 ELSE MaxOver({Abs(out[i]) : i \in DOMAIN out})

\* Mutant of Normalized: the peak is brought to full scale.
NormalizedToFullScale(out) ==
    LET peak == Peak(out)
    IN  IF peak > 0
        THEN [i \in DOMAIN out |-> PyRound(out[i] * 1000, peak)]
        ELSE out

\* output / peak * 0.9 when peak > 0, to the nearest thousandth of full scale
Normalized(out) ==
    LET peak == Peak(out)
    IN  IF peak > 0
        THEN [i \in DOMAIN out |-> PyRound(out[i] * PEAK_MILLI, peak)]
        ELSE out

RenderAlloc ==
    /\ r_pc = "load"
    /\ output' = Zeros(OutputLength(midi))
    /\ total_notes' = 0
    /\ r_pc' = "loop"
    /\ UNCHANGED <<midi, sample, base_pitch, outside_render, fvars>>

RenderNote ==
    /\ r_pc = "loop"
    /\ total_notes < Len(midi)
    /\ LET note == midi[total_notes + 1]
       IN  IF ShiftRaises(sample, note, base_pitch)
           THEN r_pc' = "error" /\ output' = output
           ELSE /\ r_pc' = r_pc
                /\ output' = Place(output, StartSample(note),
                                    Contribution(sample, note, base_pitch))
    /\ total_notes' = total_notes + 1
    /\ UNCHANGED <<midi, sample, base_pitch, outside_render, fvars>>

RenderLoopEnd ==
    /\ r_pc = "loop"
    /\ total_notes = Len(midi)
    /\ r_pc' = "normalize"
    /\ UNCHANGED <<midi, sample, base_pitch, output, total_notes, outside_render, fvars>>

RenderFinish ==
    /\ r_pc = "normalize"
    /\ output' = Normalized(output)
    /\ \E path \in generate_filepath(uploads, "wav") :
         /\ uploads' = Write(uploads, path, output')
         /\ output_path' = <<path>>
    /\ r_pc' = "done"
    /\ UNCHANGED <<midi, sample, base_pitch, total_notes, outside_render, midi_path>>

NextRender == RenderAlloc \/ RenderNote \/ RenderLoopEnd \/ RenderFinish

\* no vocal_to_midi call is in progress
PipelineIdle ==
    /\ pc = "idle"
    /\ notes = <<>>
    /\ before = <<>>
    /\ drum_bpm = <<>>
    /\ bpm = DEFAULT_BPM
    /\ key = "C"
    /\ scale = "chromatic"
    /\ quantize = "off"

MaxRenderNotes == 2

\* notes as a MIDI file holds them: 0 <= start <= end; one of them lasts no
\* sample and one a single sample
MidiNotes ==
    { Note(60, 0, 500, 127), Note(60, 250, 1000, 64), Note(62, 333, 777, 100),
      Note(72, 0, 2000, 127), Note(60, 0, 0, 100), Note(64, 100, 107, 127) }

\* a sample of 0.25 s, one of 1.5 s and a file without samples
Samples ==
    { [i \in 1 .. ToSamples(250) |-> IF i % 2 = 0 THEN 254 ELSE -127],
      [i \in 1 .. ToSamples(1500) |-> 127],
      <<>> }

InitRender ==
    /\ PipelineIdle /\ NoFiles /\ ChordsIdle /\ ConcurrentIdle /\ SegmenterIdle /\ SessionIdle
    /\ r_pc = "load"
    /\ midi \in SeqsUpTo(MidiNotes, MaxRenderNotes)
    /\ sample \in Samples
    /\ base_pitch \in {6000, 6050}
    /\ output = <<>>
    /\ total_notes = 0

SpecRender == InitRender /\ [][NextRender]_vars

-----------------------------------------------------------------------------
(* The chord generator (services/chords.py) and its endpoint (main.py).    *)
(* A chord symbol is a sequence of characters.  Chord times are in         *)
(* sixtieths of a beat: a beat lasts 60.0 / bpm seconds, a tick 1 / bpm.   *)

TICKS_PER_BEAT == 60

CHORD_INTERVALS ==
    << << <<"m", "a", "j">>,       <<0, 4, 7>> >>,
       << <<>>,                    <<0, 4, 7>> >>,
       << <<"m", "i", "n">>,       <<0, 3, 7>> >>,
       << <<"m">>,                 <<0, 3, 7>> >>,
       << <<"d", "i", "m">>,       <<0, 3, 6>> >>,
       << <<"a", "u", "g">>,       <<0, 4, 8>> >>,
       << <<"7">>,                 <<0, 4, 7, 10>> >>,
       << <<"m", "a", "j", "7">>,  <<0, 4, 7, 11>> >>,
       << <<"m", "i", "n", "7">>,  <<0, 3, 7, 10>> >>,
       << <<"m", "7">>,            <<0, 3, 7, 10>> >>,
       << <<"d", "i", "m", "7">>,  <<0, 3, 6, 9>> >>,
       << <<"s", "u", "s", "2">>,  <<0, 2, 7>> >>,
       << <<"s", "u", "s", "4">>,  <<0, 5, 7>> >>,
       << <<"a", "d", "d", "9">>,  <<0, 4, 7, 14>> >>,
       << <<"6">>,                 <<0, 4, 7, 9>> >>,
       << <<"m", "6">>,            <<0, 3, 7, 9>> >>,
       << <<"9">>,                 <<0, 4, 7, 10, 14>> >>,
       << <<"m", "9">>,            <<0, 3, 7, 10, 14>> >>,
       << <<"1", "1">>,            <<0, 4, 7, 10, 14, 17>> >>,
       << <<"1", "3">>,            <<0, 4, 7, 10, 14, 21>> >>,
       << <<"5">>,                 <<0, 7>> >> >>

NOTE_MAP ==
    << << <<"C">>, 60 >>, << <<"C", "#">>, 61 >>, << <<"D", "b">>, 61 >>,
       << <<"D">>, 62 >>, << <<"D", "#">>, 63 >>, << <<"E", "b">>, 63 >>,
       << <<"E">>, 64 >>, << <<"F", "b">>, 64 >>,
       << <<"F">>, 65 >>, << <<"F", "#">>, 66 >>, << <<"G", "b">>, 66 >>,
       << <<"G">>, 67 >>, << <<"G", "#">>, 68 >>, << <<"A", "b">>, 68 >>,
       << <<"A">>, 69 >>, << <<"A", "#">>, 70 >>, << <<"B", "b">>, 70 >>,
       << <<"B">>, 71 >>, << <<"C", "b">>, 71 >> >>

\* the entries of a table of <<key, value>> pairs that have the key
Entries(table, k) == {i \in DOMAIN table : table[i][1] = k}

UpperCase == <<"A", "B", "C", "D", "E", "F", "G", "H", "I", "J", "K", "L", "M",
               "N", "O", "P", "Q", "R", "S", "T", "U", "V", "W", "X", "Y", "Z">>
LowerCase == <<"a", "b", "c", "d", "e", "f", "g", "h", "i", "j", "k", "l", "m",
               "n", "o", "p", "q", "r", "s", "t", "u", "v", "w", "x", "y", "z">>

LowerChar(c) ==
    IF \E i \in DOMAIN UpperCase : UpperCase[i] = c
    THEN LowerCase[CHOOSE i \in DOMAIN UpperCase : UpperCase[i] = c]
    ELSE c

\* Mutant of Lower: the quality is matched as written.
LowerAsWritten(q) == q

\* str.lower()
Lower(q) == [i \in DOMAIN q |-> LowerChar(q[i])]

Whitespace == {" "}

\* str.strip()
RECURSIVE Strip(_)
Strip(sym) ==
    IF sym = <<>> THEN sym
    ELSE IF Head(sym) \in Whitespace THEN Strip(Tail(sym))
    ELSE IF Last(sym) \in Whitespace THEN Strip(Front(sym))
    ELSE sym

\* str.startswith(prefix), and c in str
StartsWith(q, prefix) ==
    Len(q) >= Len(prefix) /\ SubSeq(q, 1, Len(prefix)) = prefix
Contains(q, c) == \E i \in DOMAIN q : q[i] = c

\* CHORD_INTERVALS[key]
IntervalsOf(k) == CHORD_INTERVALS[CHOOSE i \in Entries(CHORD_INTERVALS, k) : TRUE][2]

\* the root name and the quality of a stripped, non-empty symbol
RootName(symbol) ==
    IF Len(symbol) >= 2 /\ symbol[2] \in {"#", "b"}
    THEN SubSeq(symbol, 1, 2) ELSE SubSeq(symbol, 1, 1)
Quality(symbol) == SubSeq(symbol, Len(RootName(symbol)) + 1, Len(symbol))

\* key.lower() for every key of the table
LoweredKeys == [i \in DOMAIN CHORD_INTERVALS |-> Lower(CHORD_INTERVALS[i][1])]

\* the exact match, case-insensitive, of a quality among the table's keys
ExactMatches(quality_lower) ==
    {i \in DOMAIN CHORD_INTERVALS : quality_lower = LoweredKeys[i]}

\* Mutant of FallbackIntervals: "m" is tested without "and not maj".
FallbackIntervalsAnyM(quality_lower) ==
    IF StartsWith(quality_lower, <<"m">>)
    THEN IF Contains(quality_lower, "7")
         THEN IntervalsOf(<<"m", "7">>) ELSE IntervalsOf(<<"m">>)
    ELSE IntervalsOf(<<>>)

\* the aliases tried when no key matches
FallbackIntervals(quality_lower) ==
    IF \/ StartsWith(quality_lower, <<"m", "i", "n">>)
       \/ /\ StartsWith(quality_lower, <<"m">>)
          /\ ~ StartsWith(quality_lower, <<"m", "a", "j">>)
    THEN IF Contains(quality_lower, "7")
         THEN IntervalsOf(<<"m", "7">>) ELSE IntervalsOf(<<"m">>)
    ELSE IF StartsWith(quality_lower, <<"m", "a", "j">>)
    THEN IF Contains(quality_lower, "7")
         THEN IntervalsOf(<<"m", "a", "j", "7">>) ELSE IntervalsOf(<<"m", "a", "j">>)
    ELSE IntervalsOf(<<>>)

ValueError == [error |-> TRUE, pitches |-> <<>>]

\* parse_chord: the pitches, or the ValueError it raises
parse_chord(sym) ==
    LET symbol == Strip(sym)
    IN  IF symbol = <<>> THEN ValueError
        ELSE IF Entries(NOTE_MAP, RootName(symbol)) = {} THEN ValueError
        ELSE LET root_pitch ==
                     NOTE_MAP[CHOOSE i \in Entries(NOTE_MAP, RootName(symbol)) : TRUE][2]
                 quality_lower == Lower(Quality(symbol))
                 intervals ==
                     IF ExactMatches(quality_lower) # {}
                     THEN CHORD_INTERVALS[CHOOSE i \in ExactMatches(quality_lower) : TRUE][2]
                     ELSE FallbackIntervals(quality_lower)
             IN  [error |-> FALSE,
                  pitches |-> [i \in DOMAIN intervals |-> root_pitch + intervals[i]]]

\* the octave shift and the clamp to the MIDI range
ShiftedPitch(p, octave_shift) == Max2(0, Min2(127, p + octave_shift * 12))

\* Mutant of ChordNotes: the chords are counted without the symbols that did
\* not parse, so a skipped symbol takes no time.
ChordNotesPacked(pitches, idx, req) ==
    LET parsed_before ==
            idx - Cardinality({j \in 1 .. idx : parse_chord(req.chords[j]).error})
        chord_start == parsed_before * req.beats_per_chord * TICKS_PER_BEAT
        chord_duration == req.beats_per_chord * TICKS_PER_BEAT
        arp_delay == TICKS_PER_BEAT \div Len(pitches)
    IN  [i \in DOMAIN pitches |->
           Note(ShiftedPitch(pitches[i], req.octave_shift),
                IF req.pattern = "arpeggiated"
                THEN chord_start + (i - 1) * arp_delay ELSE chord_start,
                chord_start + chord_duration,
                req.velocity)]

\* Mutant of ChordNotes: the tones of an arpeggio are spread over the whole
\* chord, not over one beat.
ChordNotesSpreadOverChord(pitches, idx, req) ==
    LET chord_start == idx * req.beats_per_chord * TICKS_PER_BEAT
        chord_duration == req.beats_per_chord * TICKS_PER_BEAT
        arp_delay == chord_duration \div Len(pitches)
    IN  [i \in DOMAIN pitches |->
           Note(ShiftedPitch(pitches[i], req.octave_shift),
                IF req.pattern = "arpeggiated"
                THEN chord_start + (i - 1) * arp_delay ELSE chord_start,
                chord_start + chord_duration,
                req.velocity)]

\* the notes one parsed chord appends to midi_instrument.notes
ChordNotes(pitches, idx, req) ==
    LET chord_start == idx * req.beats_per_chord * TICKS_PER_BEAT
        chord_duration == req.beats_per_chord * TICKS_PER_BEAT
        arp_delay == TICKS_PER_BEAT \div Len(pitches)
    IN  [i \in DOMAIN pitches |->
           Note(ShiftedPitch(pitches[i], req.octave_shift),
                IF req.pattern = "arpeggiated"
                THEN chord_start + (i - 1) * arp_delay ELSE chord_start,
                chord_start + chord_duration,
                req.velocity)]

\* Mutant of AfterSkip: a symbol that does not parse ends the loop.
AfterSkipBreak(idx, n) == n

\* continue: the loop goes on with the next symbol
AfterSkip(idx, n) == idx + 1

\* pretty_midi writes each note as a MIDI message, whose data bytes mido
\* accepts in 0..127 only
WriteRaises(ns) == \E i \in DOMAIN ns : ns[i].velocity \notin 0 .. 127

Reply(status, body) == [status |-> status, body |-> body]

\* generate_chords_endpoint up to its call of generate_chord_progression.
\* The body reads request.chords and request.bpm; a request object without
\* these attributes raises AttributeError, outside the try.
generate_chords_endpoint ==
    /\ c_pc = "endpoint"
    /\ IF ~ ({"chords", "bpm"} \subseteq DOMAIN request)
       THEN c_pc' = "failed" /\ response' = Reply("500", <<>>)
       ELSE IF \/ request.chords = <<>>
               \/ request.bpm < 40 \/ request.bpm > 300
               \/ request.beats_per_chord < 1 \/ request.beats_per_chord > 16
               \/ Len(request.chords) > 64
       THEN c_pc' = "failed" /\ response' = Reply("400", <<>>)
       ELSE c_pc' = "generate" /\ response' = response
    /\ UNCHANGED <<request, chord_idx, c_notes, pvars, rvars, fvars, kvars, svars, hvars>>

\* what the caller gets when generate_chord_progression raises
Raised(req) == IF req.via = "endpoint" THEN Reply("500", <<>>) ELSE Reply("raised", <<>>)

\* generate_chord_progression up to its loop: seconds_per_beat = 60.0 / bpm
GenerateStart ==
    /\ c_pc = "generate"
    /\ IF request.bpm = 0
       THEN c_pc' = "failed" /\ response' = Raised(request)
       ELSE c_pc' = "loop" /\ response' = response
    /\ chord_idx' = 0
    /\ c_notes' = <<>>
    /\ UNCHANGED <<request, pvars, rvars, fvars, kvars, svars, hvars>>

\* one turn of the loop over the chord symbols
ChordStep ==
    /\ c_pc = "loop"
    /\ chord_idx < Len(request.chords)
    /\ LET parsed == parse_chord(request.chords[chord_idx + 1])
       IN  IF parsed.error
           THEN /\ chord_idx' = AfterSkip(chord_idx, Len(request.chords))
                /\ c_notes' = c_notes
           ELSE /\ chord_idx' = chord_idx + 1
                /\ c_notes' = c_notes \o ChordNotes(parsed.pitches, chord_idx, request)
    /\ UNCHANGED <<c_pc, request, response, pvars, rvars, fvars, kvars, svars, hvars>>

\* after the loop: the MIDI file, the WAV file of render_midi_to_wav, the
\* return of the path
ChordWrite ==
    /\ c_pc = "loop"
    /\ chord_idx >= Len(request.chords)
    /\ IF WriteRaises(c_notes)
       THEN /\ c_pc' = "failed"
            /\ response' = Raised(request)
            /\ uploads' = uploads
       ELSE \E midi_file \in generate_filepath(uploads, "mid") :
            \E wav_file \in generate_filepath(uploads, "wav") :
               /\ c_pc' = "done"
               /\ uploads' = Write(Write(uploads, midi_file, c_notes), wav_file, c_notes)
               /\ response' = Reply(IF request.via = "endpoint" THEN "200" ELSE "returned",
                                    wav_file)
    /\ UNCHANGED <<request, chord_idx, c_notes, pvars, rvars, midi_path, output_path,
                   kvars, svars, hvars>>

NextChords == generate_chords_endpoint \/ GenerateStart \/ ChordStep \/ ChordWrite

\* chord symbols: two of the spec's examples, one to strip, one in capitals,
\* one that falls back on a prefix, an unknown root and an empty symbol
ChordSymbols ==
    { <<"C", "m", "a", "j", "7">>, <<"A", "m">>, <<" ", "F", "#", "d", "i", "m", " ">>,
      <<"B", "b", "M", "A", "J", "7">>, <<"D", "m", "i", "n", "o", "r">>,
      <<"H", "7">>, <<>> }

MaxChords == 3

ChordArgs(via, b, beats, shift, v, pattern) ==
    [via |-> via, bpm |-> b, beats_per_chord |-> beats, octave_shift |-> shift,
     velocity |-> v, pattern |-> pattern]

\* the parameters of a request: in range, at and beyond each limit
EndpointArgs ==
    { ChordArgs("endpoint", 120, 4, 0, 80, "block"),
      ChordArgs("endpoint", 120, 4, 0, 80, "arpeggiated"),
      ChordArgs("endpoint", 40, 1, 6, 1, "block"),
      ChordArgs("endpoint", 300, 16, -6, 127, "arpeggiated"),
      ChordArgs("endpoint", 39, 4, 0, 80, "block"),
      ChordArgs("endpoint", 301, 4, 0, 80, "block"),
      ChordArgs("endpoint", 120, 0, 0, 80, "block"),
      ChordArgs("endpoint", 120, 17, 0, 80, "block"),
      ChordArgs("endpoint", 120, 4, 0, 0, "block"),
      ChordArgs("endpoint", 120, 4, 0, 128, "block") }

\* the arguments of a direct call of generate_chord_progression
DirectArgs ==
    { ChordArgs("direct", 120, 4, 0, 80, "block"),
      ChordArgs("direct", 0, 4, 0, 80, "block"),
      ChordArgs("direct", 1000, 100, 0, 80, "arpeggiated"),
      ChordArgs("direct", 120, 0, 0, 80, "arpeggiated") }

WithChords(a, chords) ==
    [via |-> a.via, chords |-> chords, bpm |-> a.bpm,
     beats_per_chord |-> a.beats_per_chord, octave_shift |-> a.octave_shift,
     velocity |-> a.velocity, pattern |-> a.pattern]

\* a request as the class ChordRequest declares it: no chords, no bpm
DeclaredOnly(a) ==
    [via |-> a.via, beats_per_chord |-> a.beats_per_chord,
     octave_shift |-> a.octave_shift, velocity |-> a.velocity, pattern |-> a.pattern]

TooManyChords == [i \in 1 .. 65 |-> <<"C">>]

\* every list with the parameters in range, the shorter lists with all
ChordRequests ==
    {WithChords(ChordArgs("endpoint", 120, 4, 0, 80, "block"), cs) :
        cs \in SeqsUpTo(ChordSymbols, MaxChords)}
    \cup {WithChords(a, cs) : a \in EndpointArgs \cup DirectArgs,
                              cs \in SeqsUpTo(ChordSymbols, MaxChords - 1)}
    \cup {WithChords(ChordArgs("endpoint", 120, 4, 0, 80, "block"), TooManyChords)}
    \cup {DeclaredOnly(ChordArgs("endpoint", 120, 4, 0, 80, "block"))}

InitChords ==
    /\ PipelineIdle /\ RenderIdle /\ NoFiles /\ ConcurrentIdle /\ SegmenterIdle /\ SessionIdle
    /\ request \in ChordRequests
    /\ c_pc = IF request.via = "endpoint" THEN "endpoint" ELSE "generate"
    /\ chord_idx = 0
    /\ c_notes = <<>>
    /\ response = <<>>

SpecChords == InitChords /\ [][NextChords]_vars

\* --- the parsing of qualities: symbols whose quality is a key of the table
\* (Cmaj7, Am, CM7) and symbols whose quality is not: with the prefix "min",
\* with "m", with "maj", with none of them, with and without a "7"
MaxParseChords == 2

ParseSymbols ==
    { <<"C", "m", "a", "j", "7">>, <<"A", "m">>, <<"C", "M", "7">>,
      <<"D", "m", "i", "n", "o", "r">>, <<"A", "m", "i", "n", "7", "b", "5">>,
      <<"E", "m", "1", "1">>, <<"G", "m", "7", "b", "5">>,
      <<"C", "m", "a", "j", "o", "r">>, <<"F", "m", "a", "j", "7", "#", "1", "1">>,
      <<"E", "b", "M", "a", "j", "9">>, <<"C", "s", "u", "s">>,
      <<"G", "7", "s", "u", "s", "4">>, <<"C", " ", "m", "7">> }

ParseRequests ==
    {WithChords(ChordArgs(via, 120, 4, 0, 80, "block"), cs) :
        via \in {"endpoint", "direct"}, cs \in SeqsUpTo(ParseSymbols, MaxParseChords)}

InitParse ==
    /\ PipelineIdle /\ RenderIdle /\ NoFiles /\ ConcurrentIdle /\ SegmenterIdle /\ SessionIdle
    /\ request \in ParseRequests
    /\ c_pc = IF request.via = "endpoint" THEN "endpoint" ELSE "generate"
    /\ chord_idx = 0
    /\ c_notes = <<>>
    /\ response = <<>>

SpecParse == InitParse /\ [][NextChords]_vars

-----------------------------------------------------------------------------
(* Concurrent calls of render_with_sample.  renders[id] holds the locals   *)
(* of call id; the calls share UPLOAD_DIR and nothing else.  A call is at  *)
(* "load", "loop", "normalize", "write" (its path is generated, its file   *)
(* not yet written), "done" or "error".                                    *)

MaxConcurrent == 2

Calls == 1 .. MaxConcurrent

\* the paths that calls hold and have not written yet, as files
HeldPaths == {[name |-> renders[j].path[1], data |-> <<>>] :
                 j \in {i \in Calls : renders[i].path # <<>>}}

ConcurrentAlloc(id) ==
    /\ renders[id].r_pc = "load"
    /\ renders' = [renders EXCEPT ![id].output = Zeros(OutputLength(renders[id].midi)),
                                  ![id].total_notes = 0,
                                  ![id].r_pc = "loop"]
    /\ UNCHANGED <<pvars, rvars, fvars, cvars, svars, hvars>>

ConcurrentNote(id) ==
    /\ renders[id].r_pc = "loop"
    /\ renders[id].total_notes < Len(renders[id].midi)
    /\ LET r == renders[id]
           note == r.midi[r.total_notes + 1]
       IN  IF ShiftRaises(r.sample, note, r.base_pitch)
           THEN renders' = [renders EXCEPT ![id].r_pc = "error",
                                           ![id].total_notes = r.total_notes + 1]
           ELSE renders' = [renders EXCEPT
                               ![id].output = Place(r.output, StartSample(note),
                                                    Contribution(r.sample, note, r.base_pitch)),
                               ![id].total_notes = r.total_notes + 1]
    /\ UNCHANGED <<pvars, rvars, fvars, cvars, svars, hvars>>

ConcurrentLoopEnd(id) ==
    /\ renders[id].r_pc = "loop"
    /\ renders[id].total_notes = Len(renders[id].midi)
    /\ renders' = [renders EXCEPT ![id].r_pc = "normalize"]
    /\ UNCHANGED <<pvars, rvars, fvars, cvars, svars, hvars>>

\* the normalization and the call of generate_filepath
ConcurrentNormalize(id) ==
    /\ renders[id].r_pc = "normalize"
    /\ \E path \in generate_filepath(uploads \cup HeldPaths, "wav") :
         renders' = [renders EXCEPT ![id].output = Normalized(renders[id].output),
                                    ![id].path = <<path>>,
                                    ![id].r_pc = "write"]
    /\ UNCHANGED <<pvars, rvars, fvars, cvars, svars, hvars>>

\* sf.write and the return of the path
ConcurrentWrite(id) ==
    /\ renders[id].r_pc = "write"
    /\ uploads' = Write(uploads, renders[id].path[1], renders[id].output)
    /\ renders' = [renders EXCEPT ![id].r_pc = "done"]
    /\ UNCHANGED <<pvars, rvars, midi_path, output_path, cvars, svars, hvars>>

NextConcurrent ==
    \E id \in Calls :
        \/ ConcurrentAlloc(id)
        \/ ConcurrentNote(id)
        \/ ConcurrentLoopEnd(id)
        \/ ConcurrentNormalize(id)
        \/ ConcurrentWrite(id)

ConcurrentMidis ==
    { <<Note(60, 0, 150, 127)>>, <<Note(60, 50, 200, 64), Note(64, 100, 300, 127)>> }

ConcurrentSamples ==
    { [i \in 1 .. ToSamples(100) |-> IF i % 2 = 0 THEN 254 ELSE -127], <<>> }

RenderCall(m, y) ==
    [r_pc |-> "load", midi |-> m, sample |-> y, base_pitch |-> 6000,
     output |-> <<>>, total_notes |-> 0, path |-> <<>>]

InitConcurrent ==
    /\ PipelineIdle /\ RenderIdle /\ NoFiles /\ ChordsIdle /\ SegmenterIdle /\ SessionIdle
    /\ renders \in [Calls -> {RenderCall(m, y) : m \in ConcurrentMidis,
                                                 y \in ConcurrentSamples}]

SpecConcurrent == InitConcurrent /\ [][NextConcurrent]_vars

-----------------------------------------------------------------------------
(* The note segmenter.  No file under src/ holds it (vocal_to_midi takes   *)
(* its raw notes from Basic Pitch); it is modelled from section 4.1 of the *)
(* specification.  A frame is [active, pitch], the pitch already smoothed, *)
(* rounded and clamped; frame i has the time (i - 1) * FRAME_HOP_MS.       *)

FRAME_HOP_MS == 40
SEGMENT_VELOCITY == 100

FrameTime(i) == (i - 1) * FRAME_HOP_MS

\* Mutant of Closed: a closed note is kept whatever its duration.
ClosedKeepingShort(ns, pitch, start, end) ==
    Append(ns, Note(pitch, start, end, SEGMENT_VELOCITY))

\* closing a note: it is discarded when shorter than minNoteDuration
Closed(ns, pitch, start, end) ==
    IF end - start < MIN_NOTE_DURATION_MS THEN ns
    ELSE Append(ns, Note(pitch, start, end, SEGMENT_VELOCITY))

\* one frame of the walk
SegmentFrame ==
    /\ s_pc = "walk"
    /\ frame_idx < Len(frames)
    /\ LET f == frames[frame_idx + 1]
           t == FrameTime(frame_idx + 1)
       IN  IF holding = <<>>
           THEN /\ holding' = IF f.active THEN <<f.pitch, t>> ELSE <<>>
                /\ seg_notes' = seg_notes
           ELSE IF f.active /\ f.pitch = holding[1]
           THEN UNCHANGED <<holding, seg_notes>>
           ELSE /\ seg_notes' = Closed(seg_notes, holding[1], holding[2], t)
                /\ holding' = IF f.active THEN <<f.pitch, t>> ELSE <<>>
    /\ frame_idx' = frame_idx + 1
    /\ UNCHANGED <<s_pc, frames, pvars, rvars, fvars, cvars, kvars, hvars>>

\* the end of the stream: a note still open is closed at the last frame's
\* time
SegmentFlush ==
    /\ s_pc = "walk"
    /\ frame_idx = Len(frames)
    /\ seg_notes' = IF holding = <<>> THEN seg_notes
                    ELSE Closed(seg_notes, holding[1], holding[2], FrameTime(Len(frames)))
    /\ holding' = <<>>
    /\ s_pc' = "done"
    /\ UNCHANGED <<frames, frame_idx, pvars, rvars, fvars, cvars, kvars, hvars>>

NextSegment == SegmentFrame \/ SegmentFlush

MaxFrames == 7

Frames == {[active |-> FALSE, pitch |-> 0], [active |-> TRUE, pitch |-> 60],
           [active |-> TRUE, pitch |-> 62]}

InitSegment ==
    /\ PipelineIdle /\ RenderIdle /\ NoFiles /\ ChordsIdle /\ ConcurrentIdle /\ SessionIdle
    /\ s_pc = "walk"
    /\ frames \in SeqsUpTo(Frames, MaxFrames)
    /\ frame_idx = 0
    /\ holding = <<>>
    /\ seg_notes = <<>>

SpecSegment == InitSegment /\ [][NextSegment]_vars

-----------------------------------------------------------------------------
(* A call of vocal_to_midi and a call of render_with_sample, each of which *)
(* can fail: a tempo of 0 under quantization, a sample without samples.    *)

AbortRawNotes == {Note(122, 0, 130, 100), Note(124, 130, 260, 90)}

\* direct calls with the tempo 0, and an upload after a detected tempo
AbortConfigs ==
    { [pc |-> "round", drum_bpm |-> <<>>, bpm |-> 0,
       key |-> "C", scale |-> "major", quantize |-> "1/8"],
      [pc |-> "round", drum_bpm |-> <<>>, bpm |-> 0,
       key |-> "C", scale |-> "chromatic", quantize |-> "off"],
      [pc |-> "upload_vocal", drum_bpm |-> <<60>>, bpm |-> DEFAULT_BPM,
       key |-> "D", scale |-> "minor", quantize |-> "1/16"] }

AbortMidiNotes == {Note(60, 0, 500, 127), Note(62, 250, 750, 64)}

AbortSamples == {[i \in 1 .. ToSamples(250) |-> 127], <<>>}

MaxAbortNotes == 2

InitAbort ==
    /\ NoFiles /\ ChordsIdle /\ ConcurrentIdle /\ SegmenterIdle /\ SessionIdle
    /\ notes \in SeqsUpTo(AbortRawNotes, MaxAbortNotes)
    /\ before = notes
    /\ \E c \in AbortConfigs :
         /\ pc = c.pc
         /\ drum_bpm = c.drum_bpm
         /\ bpm = c.bpm
         /\ key = c.key
         /\ scale = c.scale
         /\ quantize = c.quantize
    /\ r_pc = "load"
    /\ midi \in SeqsUpTo(AbortMidiNotes, MaxAbortNotes)
    /\ sample \in AbortSamples
    /\ base_pitch = 6000
    /\ output = <<>>
    /\ total_notes = 0

NextAbort == Next \/ NextRender

SpecAbort == InitAbort /\ [][NextAbort]_vars

-----------------------------------------------------------------------------
(* Properties of the post-processing as a whole (specification Spec).      *)

Done == pc = "done"
AfterMerge == pc = "density"
AfterDensity == pc = "snap"

StartOrdered(ns) == \A i \in 1 .. Len(ns) - 1 : ns[i].start <= ns[i + 1].start

\* C1: with bpm > 0, the note sequence that post-processing returns is
\* ordered by non-decreasing start, and each of its notes has end > start,
\* a pitch in 0..127 and a velocity in 1..127.
C1_OutputWellFormed ==
    (Done /\ bpm > 0) =>
        /\ StartOrdered(notes)
        /\ \A i \in DOMAIN notes :
             /\ notes[i].end > notes[i].start
             /\ notes[i].pitch \in 0 .. 127
             /\ notes[i].velocity \in 1 .. 127

\* A returned sequence of two or more notes, scale-snapped and quantized, in
\* which a note was clamped to pitch 127 and a note that quantization had
\* collapsed was given one grid cell.
C1_Witness ==
    /\ Done /\ bpm > 0 /\ quantize # "off" /\ scale # "chromatic"
    /\ Len(notes) >= 2
    /\ \E i \in DOMAIN notes : notes[i].pitch = 127
    /\ \E i \in DOMAIN notes :
         /\ _quantize_time(before[i].start, bpm, quantize)
              = _quantize_time(before[i].end, bpm, quantize)
         /\ notes[i].end - notes[i].start = GridSize(bpm, quantize)

\* C2 as claimed: in the returned sequence no two notes of the same pitch
\* are closer than the merge threshold (later.start - earlier.end >= 60 ms).
C2_NoClosePairWhenDone ==
    Done => \A i, j \in DOMAIN notes :
               (i < j /\ notes[i].pitch = notes[j].pitch)
                  => notes[j].start - notes[i].end >= MERGE_GAP_MS

\* C2 as amended: right after the merge step no two consecutive notes of the
\* list have the same pitch and a gap below the merge threshold.
C2_NoAdjacentClosePairAfterMerge ==
    AfterMerge => \A i \in 1 .. Len(notes) - 1 :
                     ~ (/\ notes[i].pitch = notes[i + 1].pitch
                        /\ notes[i + 1].start - notes[i].end < MERGE_GAP_MS)

\* The merge step joined two notes and left at least two.
C2_Witness ==
    AfterMerge /\ Len(notes) >= 2 /\ Len(notes) < Len(before)

\* C7 as claimed: post-processing that quantizes at least one note runs to
\* its end only when the tempo it was asked to use (the session's detected
\* tempo, or the bpm argument) is > 0: a tempo <= 0 ends in an error, is not
\* replaced by a default and yields no grid.
C7_NonPositiveBpmFails ==
    (Done /\ quantize # "off" /\ notes # <<>>) =>
        /\ bpm > 0
        /\ drum_bpm # <<>> => drum_bpm[1] > 0

-----------------------------------------------------------------------------
(* The merge step (specification SpecMerge): before is the start-sorted    *)
(* list the step read, notes the list it left.                             *)

\* C3: a second merge pass over the output of the merge step returns the
\* same notes: same count, pitches, starts, ends and velocities.
C3_MergeIdempotent == AfterMerge => MergeNotes(notes) = notes

\* The merge step joined notes and left, for a second pass, two notes of one
\* pitch next to each other.
C3_Witness ==
    /\ AfterMerge /\ Len(notes) < Len(before)
    /\ \E i \in 1 .. Len(notes) - 1 :
         /\ notes[i].pitch = notes[i + 1].pitch
         /\ notes[i + 1].end > before[i + 1].end

\* the end the merged note that began at input note j has when it has taken
\* in the input notes j..k
EndThrough(ns, j, k) == MaxOver({ns[m].end : m \in j .. k})

\* the input note whose merged note the input note i ends up in: note i joins
\* the note before it exactly when the pitches agree and its start is less
\* than the merge gap after that note's end
RECURSIVE JoinedTo(_, _)
JoinedTo(ns, i) ==
    IF i = 1 THEN 1
    ELSE LET j == JoinedTo(ns, i - 1)
         IN  IF /\ ns[i].pitch = ns[j].pitch
                /\ ns[i].start - EndThrough(ns, j, i - 1) < MERGE_GAP_MS
             THEN j ELSE i

GroupOf(ns, j) == {i \in DOMAIN ns : JoinedTo(ns, i) = j}
Leaders(ns) == {j \in DOMAIN ns : JoinedTo(ns, j) = j}

\* the k-th smallest element of a set of integers
RECURSIVE KthOf(_, _)
KthOf(S, k) == IF k = 1 THEN MinOver(S) ELSE KthOf(S \ {MinOver(S)}, k - 1)

GapOfTwo(ns) == ns[2].start - ns[1].end

\* C4: the merge step joins a note to the note before it exactly when the
\* pitches agree and next.start - prev.end < 60 ms; the joined note keeps its
\* pitch and start and takes the larger end and the larger velocity.  Of two
\* notes of one pitch, a gap of 50 ms leaves one note spanning both, a gap
\* of 60 or 70 ms leaves both as they were.
C4_MergeRule ==
    AfterMerge =>
        /\ Len(notes) = Cardinality(Leaders(before))
        /\ \A k \in DOMAIN notes :
             LET j == KthOf(Leaders(before), k)
                 g == GroupOf(before, j)
             IN  /\ notes[k].pitch = before[j].pitch
                 /\ notes[k].start = before[j].start
                 /\ notes[k].end = MaxOver({before[i].end : i \in g})
                 /\ notes[k].velocity = MaxOver({before[i].velocity : i \in g})
        /\ (Len(before) = 2 /\ before[1].pitch = before[2].pitch) =>
             /\ GapOfTwo(before) = 50 =>
                  /\ Len(notes) = 1
                  /\ notes[1].start = before[1].start
                  /\ notes[1].end = Max2(before[1].end, before[2].end)
             /\ GapOfTwo(before) \in {60, 70} => notes = before

\* Two notes of one pitch 50 ms apart became one note spanning both.
C4_Witness ==
    /\ AfterMerge
    /\ Len(before) = 2 /\ before[1].pitch = before[2].pitch
    /\ GapOfTwo(before) = 50
    /\ Len(notes) = 1 /\ notes[1].end = before[2].end

-----------------------------------------------------------------------------
(* The density cap (specification SpecCap): before is the merged list the  *)
(* step read, notes the list it left.                                      *)

\* ceil(MAX_NOTES_PER_SECOND * 0.25)
CapPerWindow == (MAX_NOTES_PER_SECOND + 3) \div 4

CapApplied == AfterDensity /\ CapApplies(before)

StartsIn(ns, lo, hi) == {i \in DOMAIN ns : lo <= ns[i].start /\ ns[i].start < hi}

\* C5 as claimed: when the cap is applied, every fixed window
\* [s0 + 0.25k, s0 + 0.25(k+1)), s0 the first note's start, holds the starts
\* of at most 2 kept notes.
C5_FixedWindowsHoldTwo ==
    CapApplied =>
        LET s0 == before[1].start
        IN  \A k \in 0 .. ((Last(before).start - s0) \div WINDOW_MS) :
              Cardinality(StartsIn(notes, s0 + WINDOW_MS * k, s0 + WINDOW_MS * (k + 1)))
                 <= CapPerWindow

\* the starts of the cap's own windows: the first note's start, then each
\* time the start of the first note that begins 0.25 s or more after the
\* start of the window before
RECURSIVE WindowStartsFrom(_, _)
WindowStartsFrom(ns, a) ==
    LET later == {ns[i].start : i \in DOMAIN ns} \cap
                 {t \in a + WINDOW_MS .. Last(ns).start : TRUE}
    IN  IF later = {} THEN {a} ELSE {a} \cup WindowStartsFrom(ns, MinOver(later))

WindowStarts(ns) == WindowStartsFrom(ns, ns[1].start)

\* C5 as amended: when the cap is applied, every window of the cap's own
\* partition [a, a + 0.25 s) holds the starts of at most 2 kept notes.
C5_OwnWindowsHoldTwo ==
    CapApplied =>
        \A a \in WindowStarts(before) :
            Cardinality(StartsIn(notes, a, a + WINDOW_MS)) <= CapPerWindow

\* The cap was applied over two or more windows and dropped a note.
C5_Witness ==
    /\ CapApplied
    /\ Cardinality(WindowStarts(before)) >= 2
    /\ Len(notes) < Len(before)

\* the notes of window w that the cap keeps: those that have fewer than two
\* notes of the window ahead of them, a note being ahead of another when it
\* is louder, or as loud and earlier in the list
KeptOf(ns, w) ==
    {i \in w : Cardinality({j \in w : \/ ns[j].velocity > ns[i].velocity
                                      \/ /\ ns[j].velocity = ns[i].velocity
                                         /\ j < i}) < CapPerWindow}

KeptAll(ns) ==
    UNION {KeptOf(ns, StartsIn(ns, a, a + WINDOW_MS)) : a \in WindowStarts(ns)}

Count(ns, x) == Cardinality({i \in DOMAIN ns : ns[i] = x})
CountAmong(ns, I, x) == Cardinality({i \in I : ns[i] = x})

\* 20 notes per second: each note starts 50 ms after the one before
TwentyPerSecond(ns) ==
    Len(ns) >= 2 /\ \A i \in 1 .. Len(ns) - 1 : ns[i + 1].start - ns[i].start = 50

\* C6: when the cap is applied, the notes it leaves are exactly the two
\* loudest of each window (all of them when the window has fewer), equally
\* loud notes taken in list order, each as it was, ordered by start; of notes
\* 50 ms apart at most 2 are left in any 0.25 s window from the first start.
C6_KeepsLoudest ==
    CapApplied =>
        /\ StartOrdered(notes)
        /\ Len(notes) = Cardinality(KeptAll(before))
        /\ \A i \in DOMAIN notes :
             Count(notes, notes[i]) = CountAmong(before, KeptAll(before), notes[i])
        /\ TwentyPerSecond(before) =>
             \A k \in 0 .. (Last(before).start \div WINDOW_MS) :
                Cardinality(StartsIn(notes, WINDOW_MS * k, WINDOW_MS * (k + 1)))
                   <= CapPerWindow

\* The cap was applied to notes 50 ms apart and dropped a note that was as
\* loud as one it kept and a note that was quieter than one it kept.
C6_Witness ==
    /\ CapApplied /\ TwentyPerSecond(before)
    /\ \E i, j \in DOMAIN before :
         /\ i \in KeptAll(before) /\ j \notin KeptAll(before)
         /\ before[j].start - before[i].start \in 0 .. 200
         /\ before[i].velocity = before[j].velocity
    /\ \E i, j \in DOMAIN before :
         /\ i \in KeptAll(before) /\ j \notin KeptAll(before)
         /\ j < i /\ before[i].start < WINDOW_MS
         /\ before[i].velocity > before[j].velocity

-----------------------------------------------------------------------------
(* Quantization (specification SpecQuant).                                 *)

-----------------------------------------------------------------------------
(* The sample compositor (specification SpecRender).                       *)

RenderDone == r_pc = "done"

\* C9 as claimed: for an empty note sequence the returned buffer is the 1 s
\* of padding alone (1 s x rate samples), every sample zero.
C9_EmptyIsOneSecond ==
    (RenderDone /\ midi = <<>>) =>
        /\ Len(output) = ToSamples(PADDING_MS)
        /\ \A i \in DOMAIN output : output[i] = 0

\* C9 as amended: for an empty note sequence the returned buffer has 2 s x
\* rate samples (the end time 1 s given to an empty file, and 1 s of
\* padding), every sample zero.
C9_EmptyIsTwoSeconds ==
    (RenderDone /\ midi = <<>>) =>
        /\ Len(output) = ToSamples(EMPTY_END_TIME_MS + PADDING_MS)
        /\ \A i \in DOMAIN output : output[i] = 0

\* A render of an empty note sequence has returned a buffer.
C9_Witness == RenderDone /\ midi = <<>> /\ Len(output) > 0

\* C10: for a non-empty note sequence the buffer has at least the whole
\* samples of (latest note end + 1 s) x rate, and while and after the notes
\* are placed each placed note's contribution ends inside the buffer.
C10_BufferCoversNotes ==
    (r_pc \in {"loop", "normalize", "done"} /\ midi # <<>>) =>
        /\ Len(output) >= ToSamples(EndTime(midi) + PADDING_MS)
        /\ \A i \in 1 .. total_notes :
             StartSample(midi[i]) + Len(Contribution(sample, midi[i], base_pitch))
                <= Len(output)

\* Two notes were placed, one cut to its duration and one that took the
\* sample whole, and the buffer has sound in it.
C10_Witness ==
    /\ RenderDone /\ Len(midi) = 2
    /\ \E i \in DOMAIN midi : Len(sample) > NoteDurSamples(midi[i])
    /\ \E i \in DOMAIN midi :
         Len(sample) < NoteDurSamples(midi[i]) /\ StartSample(midi[i]) > 0
    /\ Peak(output) > 0


\* the contributions of the notes placed so far
Contributions == [k \in 1 .. total_notes |-> Contribution(sample, midi[k], base_pitch)]

\* what the k-th placed note adds at buffer index i
AddedAt(cs, k, i) ==
    LET off == i - StartSample(midi[k])
    IN  IF off >= 1 /\ off <= Len(cs[k]) THEN cs[k][off] ELSE 0

RECURSIVE SumAt(_, _, _)
SumAt(cs, k, i) == IF k = 0 THEN 0 ELSE SumAt(cs, k - 1, i) + AddedAt(cs, k, i)

\* C11: before normalization every sample of the buffer is the sum, over the
\* notes placed, of what each note's shifted, velocity-scaled and trimmed
\* contribution has at that index (zero where no contribution reaches).
C11_MixIsAdditive ==
    r_pc \in {"loop", "normalize"} =>
        \A cs \in {Contributions} :
            \A i \in DOMAIN output : output[i] = SumAt(cs, total_notes, i)

\* Two notes were placed whose contributions overlap at an index where both
\* are non-zero, and an index of the buffer is reached by neither.
C11_Witness ==
    /\ r_pc = "normalize" /\ total_notes = 2
    /\ \E cs \in {Contributions} :
           /\ \E i \in DOMAIN output : AddedAt(cs, 1, i) # 0 /\ AddedAt(cs, 2, i) # 0
           /\ \E i \in DOMAIN output :
                /\ i > StartSample(midi[1]) + Len(cs[1])
                /\ i > StartSample(midi[2]) + Len(cs[2])

ShorterThanNote(note) == Len(sample) < NoteDurSamples(note)

C13_NormalizeToNineTenths ==
    [][(r_pc = "normalize" /\ r_pc' = "done") =>
          LET peak == Peak(output)
          IN  IF peak > 0
              THEN /\ Peak(output') = PEAK_MILLI
                   /\ Len(output') = Len(output)
                   /\ \A i \in DOMAIN output :
                        2 * Abs(output'[i] * peak - output[i] * PEAK_MILLI) <= peak
              ELSE output' = output]_vars

\* A buffer with sound in it, not already at 0.9, was normalized.
C13_Witness ==
    /\ RenderDone /\ Peak(output) = PEAK_MILLI /\ midi # <<>>
    /\ \E i \in DOMAIN output : output[i] # 0 /\ Abs(output[i]) < PEAK_MILLI

-----------------------------------------------------------------------------
(* The chord generator (specification SpecChords).                         *)

\* the symbols the loop has gone through
Processed == 1 .. Min2(chord_idx, Len(request.chords))

\* the notes in c_notes of the chord at list position k (positions from 1),
\* told by their start when a chord lasts a beat or more
NotesOfChord(k) ==
    LET lo == (k - 1) * request.beats_per_chord * TICKS_PER_BEAT
        hi == k * request.beats_per_chord * TICKS_PER_BEAT
    IN  SelectSeq(c_notes, LAMBDA n : lo <= n.start /\ n.start < hi)

PitchesOf(ns) == [i \in DOMAIN ns |-> ns[i].pitch]

\* the root and the quality as C14 reads them off a symbol
RootKnown(sym) ==
    Strip(sym) # <<>> /\ Entries(NOTE_MAP, RootName(Strip(sym))) # {}
RootPitchOf(sym) == NOTE_MAP[CHOOSE i \in Entries(NOTE_MAP, RootName(Strip(sym))) : TRUE][2]
LoweredQuality(sym) ==
    [j \in DOMAIN Quality(Strip(sym)) |-> LowerChar(Quality(Strip(sym))[j])]
TableRows(sym) ==
    UNION {{i \in DOMAIN CHORD_INTERVALS : CHORD_INTERVALS[i][1] = q} :
              q \in {LoweredQuality(sym)}}

InLoopOrAfter == c_pc \in {"loop", "done"} /\ request.beats_per_chord >= 1

\* C14: at octave shift 0 the notes of a symbol whose root is in the note
\* table and whose quality, lower-cased, is a key of the interval table have
\* the pitches root + each interval of that row, in the row's order; Cmaj7
\* gives 60, 64, 67, 71 and Am gives 69, 72, 76.
C14_ParseChord ==
    (InLoopOrAfter /\ request.octave_shift = 0) =>
        \A k \in Processed :
            LET sym == request.chords[k]
            IN  /\ (RootKnown(sym) /\ TableRows(sym) # {}) =>
                      \A r \in TableRows(sym) :
                         PitchesOf(NotesOfChord(k))
                            = [i \in DOMAIN CHORD_INTERVALS[r][2] |->
                                  RootPitchOf(sym) + CHORD_INTERVALS[r][2][i]]
                /\ sym = <<"C", "m", "a", "j", "7">> =>
                      PitchesOf(NotesOfChord(k)) = <<60, 64, 67, 71>>
                /\ sym = <<"A", "m">> => PitchesOf(NotesOfChord(k)) = <<69, 72, 76>>

\* Cmaj7, Am and a symbol written in capitals and with a two-character root
\* were turned into notes.
C14_Witness ==
    /\ c_pc = "done" /\ request.octave_shift = 0 /\ request.beats_per_chord >= 1
    /\ request.chords = << <<"C", "m", "a", "j", "7">>, <<"B", "b", "M", "A", "J", "7">>,
                           <<"A", "m">> >>
    /\ PitchesOf(c_notes) = <<60, 64, 67, 71, 70, 74, 77, 81, 69, 72, 76>>


Skipped == {k \in DOMAIN request.chords : ~ RootKnown(request.chords[k])}

\* the parameters with which generate_chord_progression runs to its end
Renderable(req) == req.bpm # 0 /\ req.velocity \in 0 .. 127

\* C15: a symbol that is empty or whose root is not in the note table adds
\* no note and does not end the call; every other symbol of the list adds
\* all the notes of its chord.
C15_SkipsOnlyBadSymbol ==
    /\ InLoopOrAfter =>
          \A k \in Processed :
             IF RootKnown(request.chords[k])
             THEN /\ Len(NotesOfChord(k)) = Len(parse_chord(request.chords[k]).pitches)
                  /\ Len(NotesOfChord(k)) >= 2
             ELSE NotesOfChord(k) = <<>>
    /\ c_pc = "done" => chord_idx = Len(request.chords)
    /\ (c_pc = "failed" /\ request.via = "direct") => ~ Renderable(request)

\* A progression with an unknown root between two chords ran to its end
\* and has the notes of both.
C15_Witness ==
    /\ c_pc = "done" /\ request.pattern = "block"
    /\ request.chords = << <<"C", "m", "a", "j", "7">>, <<"H", "7">>, <<"A", "m">> >>
    /\ Len(c_notes) = 7
    /\ c_notes[5].start = 2 * request.beats_per_chord * TICKS_PER_BEAT

\* C16 as claimed: when symbols were skipped, what the caller gets names
\* them.
C16_SkippedReported ==
    (c_pc = "done" /\ Skipped # {}) =>
        /\ "skipped" \in DOMAIN response
        /\ response.skipped = Skipped

\* C17 as claimed: notes are generated only with beats_per_chord in 1..16,
\* bpm in 40..300, at most 64 chords and velocity in 1..127.
C17_OutOfRangeRejected ==
    c_notes # <<>> =>
        /\ request.beats_per_chord \in 1 .. 16
        /\ request.bpm >= 40 /\ request.bpm <= 300
        /\ Len(request.chords) <= 64
        /\ request.velocity \in 1 .. 127

-----------------------------------------------------------------------------
(* Failures (specification SpecAbort).                                     *)

FilesOf(extension) == {f \in uploads : f.name[2] = extension}

\* a note of the file asks for a pitch shift that is outside the routine's
\* domain
ShiftOutsideDomain ==
    \E k \in DOMAIN midi :
        /\ Abs(100 * midi[k].pitch - base_pitch) >= 1
        /\ sample = <<>>

\* C18: a call of vocal_to_midi that fails returns no path and writes no
\* note file, and a failing quantization is not passed over; a call of
\* render_with_sample with a pitch shift that fails ends in the error,
\* returns no path and writes no audio file.
C18_FailureAborts ==
    /\ pc = "error" => midi_path = <<>> /\ FilesOf("mid") = {}
    /\ pc = "done" => ~ (quantize # "off" /\ before # <<>> /\ bpm = 0)
    /\ FilesOf("mid") # {} => pc = "done"
    /\ r_pc = "error" => output_path = <<>> /\ FilesOf("wav") = {}
    /\ (r_pc \in {"normalize", "done"}) => ~ ShiftOutsideDomain
    /\ FilesOf("wav") # {} => r_pc = "done"

\* Both calls failed, the render on its second note, and no file exists.
C18_Witness ==
    /\ pc = "error" /\ before # <<>>
    /\ r_pc = "error" /\ total_notes = 2
    /\ uploads = {}

-----------------------------------------------------------------------------
(* Concurrent renders (specification SpecConcurrent).                      *)

\* the buffer of a call that runs alone, after its first k notes
RECURSIVE MixedAlone(_, _, _, _)
MixedAlone(m, y, base, k) ==
    IF k = 0 THEN Zeros(OutputLength(m))
    ELSE Place(MixedAlone(m, y, base, k - 1), StartSample(m[k]),
               Contribution(y, m[k], base))

Alone(r) == Normalized(MixedAlone(r.midi, r.sample, r.base_pitch, Len(r.midi)))

\* C19: whatever the calls do in between, the buffer of each call is the
\* buffer it has when it runs alone, the file at its path holds its own
\* result once it has returned, and no two calls have the same path.
C19_RendersIndependent ==
    \A id \in Calls :
        LET r == renders[id]
        IN  /\ r.r_pc = "loop" =>
                 r.output = MixedAlone(r.midi, r.sample, r.base_pitch, r.total_notes)
            /\ r.r_pc \in {"write", "done"} => r.output = Alone(r)
            /\ r.r_pc = "done" =>
                 \E f \in uploads : f.name = r.path[1] /\ f.data = Alone(r)
            /\ \A other \in Calls \ {id} :
                 (r.path # <<>> /\ renders[other].path # <<>>) => r.path # renders[other].path

\* Two calls with different results have both returned, and both files are
\* there.
C19_Witness ==
    /\ \A id \in Calls : renders[id].r_pc = "done"
    /\ Alone(renders[1]) # Alone(renders[2])
    /\ Peak(renders[1].output) > 0 /\ Peak(renders[2].output) > 0
    /\ Cardinality(uploads) >= 2

-----------------------------------------------------------------------------
(* The note segmenter (specification SpecSegment).                         *)

SameRun(a, b) ==
    \A i \in a .. b : frames[i].active /\ frames[i].pitch = frames[a].pitch

\* the maximal runs of active frames of one pitch among the frames walked
RunsWalked ==
    {ab \in (1 .. frame_idx) \X (1 .. frame_idx) :
        /\ ab[1] <= ab[2]
        /\ SameRun(ab[1], ab[2])
        /\ ab[1] > 1 => ~ SameRun(ab[1] - 1, ab[2])
        /\ ab[2] < frame_idx => ~ SameRun(ab[1], ab[2] + 1)}

\* when the note of a run is closed: at the frame after the run, or at the
\* last frame's time when the stream ends in the run
RunEnd(ab) == IF ab[2] < Len(frames) THEN FrameTime(ab[2] + 1) ELSE FrameTime(Len(frames))

\* the runs whose note is closed and long enough
RunsKept ==
    {ab \in RunsWalked :
        /\ ab[2] < frame_idx \/ s_pc = "done"
        /\ RunEnd(ab) - FrameTime(ab[1]) >= MIN_NOTE_DURATION_MS}

\* C20: the walk is Idle or Holding(pitch), holding the run of frames it is
\* in; the notes it has kept are, in order, those of the closed runs of one
\* active pitch that last minNoteDuration or more, from the run's first
\* frame to the frame that closed it (the last frame at the end of the
\* stream); so notes do not overlap, each lasts minNoteDuration or more, and
\* frames that are all inactive give no note.
C20_SegmenterWalk ==
    s_pc \in {"walk", "done"} =>
        /\ Len(seg_notes) = Cardinality(RunsKept)
        /\ \A i \in DOMAIN seg_notes :
             \E ab \in RunsKept :
                /\ Cardinality({cd \in RunsKept : cd[1] <= ab[1]}) = i
                /\ seg_notes[i] = Note(frames[ab[1]].pitch, FrameTime(ab[1]), RunEnd(ab),
                                       SEGMENT_VELOCITY)
        /\ (s_pc = "walk" /\ holding # <<>>) =>
              \E ab \in RunsWalked :
                 ab[2] = frame_idx /\ holding = <<frames[ab[1]].pitch, FrameTime(ab[1])>>
        /\ (s_pc = "walk" /\ holding = <<>>) =>
              (frame_idx = 0 \/ ~ frames[frame_idx].active)
        /\ \A i \in 1 .. Len(seg_notes) - 1 : seg_notes[i].end <= seg_notes[i + 1].start
        /\ \A i \in DOMAIN seg_notes :
              seg_notes[i].end - seg_notes[i].start >= MIN_NOTE_DURATION_MS
        /\ (\A i \in DOMAIN frames : ~ frames[i].active) => seg_notes = <<>>

\* The walk closed a note on a change of pitch and opened the next at the
\* same frame, discarded a short note, and kept the note that was open at
\* the end of the stream.
C20_Witness ==
    /\ s_pc = "done" /\ Len(seg_notes) = 2
    /\ seg_notes[1].end = seg_notes[2].start
    /\ seg_notes[2].end = FrameTime(Len(frames))
    /\ frames[Len(frames)].active
    /\ Cardinality(RunsWalked) > 2

-----------------------------------------------------------------------------
(* The order of the steps (specification Spec).                            *)

AllKept(ns) == \A i \in DOMAIN ns : Keep(ns[i])

\* the list differs from the other in its pitches at most, in its times at most
SameButPitch(a, b) ==
    Len(a) = Len(b) /\ \A i \in DOMAIN a : a[i] = [b[i] EXCEPT !.pitch = a[i].pitch]
SameButTimes(a, b) ==
    Len(a) = Len(b) /\
    \A i \in DOMAIN a : a[i] = [b[i] EXCEPT !.start = a[i].start, !.end = a[i].end]

\* the list is the other without some of its notes, in some order
SomeOf(a, b) == \A i \in DOMAIN a : Count(a, a[i]) <= Count(b, a[i])

\* C21: the steps run in the order round, drop, sort, merge, density cap,
\* scale snap, quantize.  The drop step leaves exactly the notes that are
\* long and loud enough, so the sort and the merge read only such notes and
\* no short or quiet note is merged into a neighbour; the density cap reads
\* the merged list and only takes notes away; the snap changes pitches only
\* and the quantization times only, of the notes the cap left.
C21_StrictOrder ==
    [][/\ pc = "round" => (pc' = "drop" /\ SameButPitch(notes', notes))
       /\ pc = "drop" => (pc' = "sort" /\ notes' = SelectSeq(notes, Keep))
       /\ pc = "sort" => (pc' = "merge" /\ AllKept(notes) /\ AllKept(notes'))
       /\ pc = "merge" =>
            /\ pc' = "density"
            /\ AllKept(notes) /\ StartOrdered(notes)
            /\ \A i \in DOMAIN notes' :
                 /\ \E j \in DOMAIN notes : notes'[i].end = notes[j].end
                 /\ \E j \in DOMAIN notes : notes'[i].velocity = notes[j].velocity
       /\ pc = "density" =>
            /\ pc' = "snap"
            /\ MergeNotes(notes) = notes
            /\ SomeOf(notes', notes)
       /\ pc = "snap" => (pc' = "quantize" /\ SameButPitch(notes', notes))
       /\ pc = "quantize" =>
            /\ pc' \in {"done", "error"}
            /\ SameButTimes(notes', notes)
            /\ notes = SnapNotes(before, key, scale)
       /\ pc \in {"done", "error"} => UNCHANGED notes]_vars

\* The drop step took away a short or quiet note that the merge, had it run
\* first, would have joined to a neighbour that stays.
C21_Witness ==
    /\ pc = "sort" /\ Len(notes) < Len(before) /\ notes # <<>>
    /\ \E i \in DOMAIN notes :
         \E n \in {MergeNotes(SortByStart(before))[k] :
                      k \in DOMAIN MergeNotes(SortByStart(before))} :
            /\ n.start = notes[i].start /\ n.pitch = notes[i].pitch
            /\ n.end > notes[i].end
            /\ MergeNotes(SortByStart(notes)) = SortByStart(notes)

-----------------------------------------------------------------------------
(* The scale snap (specification Spec): before is the list the step read,  *)
(* notes the list it left.                                                 *)

AfterSnap == pc = "quantize"

InScale(p) == p \in _build_scale_set(key, scale)

\* C22: the scale snap leaves every note whose pitch is in the scale as it
\* was; with the chromatic scale it leaves the whole list as it was, and
\* every pitch of 0..127 is in the chromatic set of every key.
C22_SnapKeepsInScale ==
    AfterSnap =>
        /\ Len(notes) = Len(before)
        /\ \A i \in DOMAIN notes : InScale(before[i].pitch) => notes[i] = before[i]
        /\ scale = "chromatic" =>
             /\ notes = before
             /\ \A p \in 0 .. 127 : _snap_to_scale(p, _build_scale_set(key, scale)) = p

\* The snap ran with the chromatic scale over a list that has a pitch outside
\* the key's major scale and a pitch inside it.
C22_Witness ==
    /\ AfterSnap /\ scale = "chromatic"
    /\ \E i \in DOMAIN notes : notes[i].pitch \notin _build_scale_set(key, "major")
    /\ \E i \in DOMAIN notes : notes[i].pitch \in _build_scale_set(key, "major")

-----------------------------------------------------------------------------
(* The search of the scale snap (specification SpecSnap).                  *)

\* C23: with a scale other than chromatic, a pitch of 0..127 that is not in
\* the scale is moved by d semitones, 1 <= d <= 6, to a pitch that is in the
\* scale's set and in 0..127: no smaller offset reaches the set in either
\* direction, and the move is upward whenever pitch + d is in the set.  So
\* no pitch of the set is nearer, and of two that are equally near the upper
\* one is taken.
C23_SnapSearch ==
    (AfterSnap /\ scale # "chromatic") =>
        \A valid_notes \in {_build_scale_set(key, scale)} :
            \A i \in DOMAIN notes :
                LET p == before[i].pitch
                    r == notes[i].pitch
                    d == Abs(r - p)
                IN  (p \in 0 .. 127 /\ p \notin valid_notes) =>
                        /\ r \in valid_notes /\ r \in 0 .. 127
                        /\ d \in 1 .. 6
                        /\ \A e \in 1 .. d - 1 :
                             (p + e) \notin valid_notes /\ (p - e) \notin valid_notes
                        /\ (p + d) \in valid_notes => r = p + d
                        /\ \A v \in valid_notes : Abs(v - p) >= d

\* A pitch with a scale pitch one semitone above and one below was moved up,
\* and the pitch 127, which has none above, was moved down.
C23_Witness ==
    /\ AfterSnap /\ scale # "chromatic" /\ Len(notes) = 2
    /\ ~ InScale(before[1].pitch)
    /\ InScale(before[1].pitch - 1)
    /\ notes[1].pitch = before[1].pitch + 1
    /\ before[2].pitch = 127 /\ notes[2].pitch = 126

-----------------------------------------------------------------------------
(* The grid of the quantization (specification SpecQuant): before is the   *)
(* list the step read, notes the list it left.                             *)

\* the multiples of g from 0 to the first one after t
GridLines(t, g) == {k * g : k \in 0 .. (t \div g) + 1}

\* the rule: the nearest grid line; of two that are equally near, the one
\* that is an even multiple of the cell
NearestOnGrid(t, g) ==
    CHOOSE x \in GridLines(t, g) :
        /\ \A y \in GridLines(t, g) : Abs(t - x) <= Abs(t - y)
        /\ 2 * Abs(t - x) = g => (x \div g) % 2 = 0

Quantized == Done /\ quantize # "off" /\ bpm > 0

\* C24: with a grid and bpm > 0, the start of every note is moved to the
\* nearest multiple of the grid cell 60 / bpm / subdivisions, whatever its
\* end, and its end to the nearest multiple by the same rule, whatever its
\* start, unless that is at or before the new start: then the end is the new
\* start plus one cell.  Every start and end is a multiple of the cell and
\* every note lasts one cell or more.
C24_QuantizeGrid ==
    Quantized =>
        \A g \in {MS_PER_MINUTE \div (bpm * Subdivisions(quantize))} :
            /\ Len(notes) = Len(before)
            /\ \A i \in DOMAIN notes :
                 LET q_start == NearestOnGrid(before[i].start, g)
                     q_end == NearestOnGrid(before[i].end, g)
                 IN  /\ notes[i].start = q_start
                     /\ notes[i].end = IF q_end <= q_start THEN q_start + g ELSE q_end
                     /\ notes[i].start % g = 0 /\ notes[i].end % g = 0
                     /\ notes[i].end - notes[i].start >= g

\* A start halfway between two grid lines went to the even one below it and
\* another to the even one above it, and an end that had come to lie on the
\* note's start was put one cell after it.
C24_Witness ==
    /\ Quantized /\ Len(notes) = 2
    /\ \E g \in {GridSize(bpm, quantize)} :
         /\ \E i \in DOMAIN notes :
              2 * (before[i].start - notes[i].start) = g
         /\ \E i \in DOMAIN notes :
              2 * (notes[i].start - before[i].start) = g
         /\ \E i \in DOMAIN notes :
              /\ NearestOnGrid(before[i].end, g) <= notes[i].start
              /\ notes[i].end = notes[i].start + g

-----------------------------------------------------------------------------
(* The density cap under a shift in time (specification SpecCap).          *)

\* every note moved by the same offset
Shift(ns, d) == [i \in DOMAIN ns |-> [ns[i] EXCEPT !.start = @ + d, !.end = @ + d]]

\* offsets: within a window, half a window, a whole window, many windows
ShiftOffsets == {1, 125, 250, 1000}

\* the lists the cap reads for the raw lists of InitCap
CapInputs ==
    {MergeNotes(SortByStart(DropShortQuiet(RoundPitches(raw)))) :
        raw \in SortedSeqsUpTo(CapRawNotes, MaxCapNotes)
                  \cup UNION {RunNotes(n) : n \in 1 .. MaxRunNotes}}

-----------------------------------------------------------------------------
(* The trim and the fade-out (specification SpecRender).                   *)

\* the k-th note's sample after the shift and the velocity scale
ScaledFor(k) == VelocityScaled(Shifted(sample, midi[k], base_pitch), midi[k])

\* C26 as claimed: a placed note whose scaled sample is longer than the
\* note's length in samples contributes exactly that many samples: those
\* before the last min(10 ms of samples, length) are the scaled sample's,
\* the last ones are the scaled sample's times a factor that falls linearly
\* from 1 to 0, so the final sample is 0; a note of length 0 contributes
\* nothing.
C26_TruncateAndFade ==
    r_pc \in {"loop", "normalize"} =>
        \A k \in 1 .. total_notes :
            LET n == NoteDurSamples(midi[k])
                y == ScaledFor(k)
                c == Contribution(sample, midi[k], base_pitch)
                fade_len == Min2(ToSamples(FADE_MS), n)
            IN  Len(y) > n =>
                    /\ Len(c) = n
                    /\ \A i \in 1 .. n - fade_len : c[i] = y[i]
                    /\ \A j \in 1 .. fade_len :
                         (fade_len > 1) =>
                            c[n - fade_len + j] * (fade_len - 1)
                               = y[n - fade_len + j] * (fade_len - j)
                    /\ n > 0 => c[n] = 0
                    /\ n = 0 => c = <<>>

-----------------------------------------------------------------------------
(* The placement of the chords (specification SpecChords).                 *)

\* the tones of every symbol of the list: none for one that does not parse
Tones == [k \in DOMAIN request.chords |-> parse_chord(request.chords[k]).pitches]

\* the notes in c_notes before those of the symbol at list position k
RECURSIVE NoteOffset(_, _)
NoteOffset(tones, k) ==
    IF k = 1 THEN 0 ELSE NoteOffset(tones, k - 1) + Len(tones[k - 1])

\* the slot of the symbol at list position k, list index k - 1, in ticks
SlotStart(k) == (k - 1) * request.beats_per_chord * TICKS_PER_BEAT
SlotEnd(k) == k * request.beats_per_chord * TICKS_PER_BEAT

Clamped(p) == IF p < 0 THEN 0 ELSE IF p > 127 THEN 127 ELSE p

InChordLoop == c_pc \in {"loop", "done"}

\* C27: the notes of the symbol at list index n are in the slot from
\* n * beats_per_chord beats to (n + 1) * beats_per_chord beats, n counting
\* every symbol of the list: each ends at the slot's end and none starts
\* before the slot's start; a symbol that is skipped adds no note, so its
\* slot has none, and the symbols after it keep their slots.  With the
\* pattern "block" every tone starts at the slot's start, and the pitches
\* are root + interval + 12 * octave_shift, clamped to 0..127.
C27_ChordSlots ==
    InChordLoop =>
        \A tones \in {Tones} :
            /\ Len(c_notes) = NoteOffset(tones, Min2(chord_idx, Len(request.chords)) + 1)
            /\ \A k \in Processed :
                 /\ \A i \in DOMAIN tones[k] :
                      LET note == c_notes[NoteOffset(tones, k) + i]
                      IN  /\ note.end = SlotEnd(k)
                          /\ note.start >= SlotStart(k)
                          /\ request.pattern = "block" => note.start = SlotStart(k)
                          /\ request.pattern = "block" =>
                               note.pitch = Clamped(tones[k][i] + 12 * request.octave_shift)
                 /\ (tones[k] = <<>> /\ request.beats_per_chord >= 1) =>
                      \A j \in DOMAIN c_notes :
                         ~ (/\ SlotStart(k) <= c_notes[j].start
                            /\ c_notes[j].start < SlotEnd(k))

\* A block progression whose first symbol was skipped ran to its end: the
\* chord after it starts one slot in, and the octave shift took its tones
\* to the top of the range.
C27_Witness ==
    /\ c_pc = "done" /\ request.pattern = "block"
    /\ 1 \in Skipped /\ Len(request.chords) = 2
    /\ c_notes # <<>>
    /\ c_notes[1].start = request.beats_per_chord * TICKS_PER_BEAT
    /\ c_notes[1].pitch = 127

-----------------------------------------------------------------------------
(* The arpeggio (specification SpecChords).                                *)

Arpeggiated == InChordLoop /\ request.pattern = "arpeggiated" /\ request.bpm > 0

\* C28: with the pattern "arpeggiated" and a tempo > 0, tone i (from 0, in
\* the order of the interval list) of a chord of k tones starts i / k of a
\* beat after the chord's start and ends at the chord's end, with the
\* shifted and clamped pitch of that interval; with beats_per_chord >= 1
\* every note has end > start and the note list is ordered by start.
C28_Arpeggio ==
    Arpeggiated =>
        \A tones \in {Tones} :
            /\ \A k \in Processed :
                 \A i \in DOMAIN tones[k] :
                    LET note == c_notes[NoteOffset(tones, k) + i]
                    IN  /\ (note.start - SlotStart(k)) * Len(tones[k])
                              = (i - 1) * TICKS_PER_BEAT
                        /\ note.end = SlotEnd(k)
                        /\ note.pitch = Clamped(tones[k][i] + 12 * request.octave_shift)
                        /\ request.beats_per_chord >= 1 => note.end > note.start
            /\ request.beats_per_chord >= 1 => StartOrdered(c_notes)

\* An arpeggiated progression of a chord of four tones and a chord of three
\* ran to its end: the tones are a quarter and a third of a beat apart.
C28_Witness ==
    /\ c_pc = "done" /\ Arpeggiated /\ request.beats_per_chord > 1
    /\ Len(request.chords) = 2 /\ Len(c_notes) = 7
    /\ c_notes[2].start - c_notes[1].start = TICKS_PER_BEAT \div 4
    /\ c_notes[7].start - c_notes[6].start = TICKS_PER_BEAT \div 3
    /\ c_notes[4].end < c_notes[7].end

-----------------------------------------------------------------------------
(* The qualities that are not in the table (specification SpecParse).      *)

MinPrefix == <<"m", "i", "n">>
MajPrefix == <<"m", "a", "j">>

\* the intervals the notes of the symbol at list position k have over the
\* symbol's root
IntervalsHeard(tones, k) ==
    [i \in DOMAIN tones[k] |->
        c_notes[NoteOffset(tones, k) + i].pitch - RootPitchOf(request.chords[k])]

HttpReply(status, detail) == [status |-> status, detail |-> detail]

Ok == HttpReply(200, <<>>)

NoSampleDetail == <<"No sample uploaded. Upload a one-shot sample first.">>

NoMidiDetail == <<"No MIDI file available. Upload a vocal first.">>

Instruments == {"Piano", "Custom Sample"}

\* os.path.exists of a path the session holds; None is <<>>
Exists(p) == p # NoPath /\ \E f \in uploads : f.name = p[1]

\* uuid4 names are not used twice, so a new path is neither a file of the
\* directory nor a path the session still holds after its file was removed
SessionHeld ==
    {[name |-> session[k][1], data |-> <<>>] :
        k \in {j \in DOMAIN session : session[j] # NoPath}}

NewPath(extension) == generate_filepath(uploads \cup SessionHeld, extension)

\* str(e) of an HTTPException: "status: detail" where the class defines
\* __str__, the empty string where it does not
StrOfHTTPException(status, detail) == {<<status, ": ">> \o detail, <<>>}

session_rest == <<pvars, rvars, midi_path, output_path, cvars, kvars, svars>>

\* upload_sample: a name that does not end in .wav, a file that is not a
\* WAV, a pitch detection that raises, or a sample that is stored
upload_sample ==
    /\ \E outcome \in {"not_wav", "invalid_wav", "detect_raises", "ok"} :
         CASE outcome = "not_wav" ->
                /\ http' = HttpReply(400, <<"Only WAV files are accepted.">>)
                /\ UNCHANGED <<session, uploads>>
           [] outcome = "invalid_wav" ->
                /\ NewPath("wav") # {}
                /\ http' = HttpReply(400, <<"Invalid WAV file.">>)
                /\ UNCHANGED <<session, uploads>>
           [] outcome = "detect_raises" ->
                /\ NewPath("wav") # {}
                /\ http' = HttpReply(500, <<"Pitch detection failed: ", "Exception">>)
                /\ UNCHANGED <<session, uploads>>
           [] outcome = "ok" ->
                \E file_path \in NewPath("wav") :
                   /\ uploads' = Write(uploads, file_path, <<>>)
                   /\ session' = [session EXCEPT !.sample_path = <<file_path>>]
                   /\ http' = Ok
    /\ UNCHANGED session_rest

\* upload_vocal, as far as the session sees it: the vocal is stored before
\* the transcription, and stays in the session when the transcription
\* fails and the file is removed
upload_vocal_session ==
    /\ \E outcome \in {"not_wav", "invalid_wav", "raw_audio", "midi", "transcribe_raises"} :
         CASE outcome = "not_wav" ->
                /\ http' = HttpReply(400, <<"Only WAV files are accepted.">>)
                /\ UNCHANGED <<session, uploads>>
           [] outcome = "invalid_wav" ->
                /\ NewPath("wav") # {}
                /\ http' = HttpReply(400, <<"Invalid WAV file.">>)
                /\ UNCHANGED <<session, uploads>>
           [] outcome = "raw_audio" ->
                \E file_path \in NewPath("wav") :
                   /\ uploads' = Write(uploads, file_path, <<>>)
                   /\ session' = [session EXCEPT !.vocal_path = <<file_path>>,
                                                 !.midi_path = NoPath]
                   /\ http' = Ok
           [] outcome = "midi" ->
                \E file_path \in NewPath("wav") :
                   \E new_midi \in NewPath("mid") :
                      /\ uploads' = Write(Write(uploads, file_path, <<>>), new_midi, <<>>)
                      /\ session' = [session EXCEPT !.vocal_path = <<file_path>>,
                                                    !.midi_path = <<new_midi>>]
                      /\ http' = Ok
           [] outcome = "transcribe_raises" ->
                \E file_path \in NewPath("wav") :
                   /\ session' = [session EXCEPT !.vocal_path = <<file_path>>]
                   /\ http' = HttpReply(500, <<"MIDI transcription failed: ", "Exception">>)
                   /\ UNCHANGED uploads
    /\ UNCHANGED session_rest

\* The try block of render and of re_render: what it raises, or the path of
\* the WAV it wrote.  The HTTPException for the missing sample is raised
\* inside the try; it is not a FileNotFoundError and it is an Exception, so
\* the second except clause catches it and raises the 500 in its place.
\* "raised" is <<>> when the block ran through, and then "wav" is the path.
TryRender(instrument, failed) ==
    IF instrument = "Custom Sample"
         /\ ~ Exists(session.sample_path)
    THEN {[raised |-> <<HttpReply(500, <<failed>> \o e)>>, wav |-> NoPath] :
             e \in StrOfHTTPException("400", NoSampleDetail)}
    ELSE {[raised |-> <<>>, wav |-> <<w>>] : w \in NewPath("wav")}
         \cup (IF instrument = "Custom Sample"
               THEN {}
               ELSE {[raised |-> <<HttpReply(500, <<"FileNotFoundError">>)>>, wav |-> NoPath]})
         \cup {[raised |-> <<HttpReply(500, <<failed, "Exception">>)>>, wav |-> NoPath]}

\* render: the raw vocal when there is no MIDI file, 400 when there is
\* neither, else the try block; rendered_path is set after it ran through
RenderRequest(instrument) ==
    /\   IF session.midi_path = NoPath /\ Exists(session.vocal_path)
         THEN /\ session' = [session EXCEPT !.rendered_path = session.vocal_path]
              /\ http' = Ok
              /\ UNCHANGED uploads
         ELSE IF ~ Exists(session.midi_path)
         THEN /\ http' = HttpReply(400, NoMidiDetail)
              /\ UNCHANGED <<session, uploads>>
         ELSE \E t \in TryRender(instrument, "Rendering failed: ") :
                 IF t.raised # <<>>
                 THEN /\ http' = t.raised[1]
                      /\ UNCHANGED <<session, uploads>>
                 ELSE /\ uploads' = Write(uploads, t.wav[1], <<>>)
                      /\ session' = [session EXCEPT !.rendered_path = t.wav]
                      /\ http' = Ok
    /\ UNCHANGED session_rest

render == \E instrument \in Instruments : RenderRequest(instrument)

\* re_render: 404 when the named file is not in the directory, else the
\* try block; the session is not written
ReRenderRequest(midi_filename, instrument) ==
    /\      IF ~ Exists(<<midi_filename>>)
            THEN /\ http' = HttpReply(404, <<"MIDI file '", "' not found.">>)
                 /\ UNCHANGED uploads
            ELSE \E t \in TryRender(instrument, "Re-rendering failed: ") :
                    IF t.raised # <<>>
                    THEN /\ http' = t.raised[1]
                         /\ UNCHANGED uploads
                    ELSE /\ uploads' = Write(uploads, t.wav[1], <<>>)
                         /\ http' = Ok
    /\ UNCHANGED session
    /\ UNCHANGED session_rest

MidiFilenames == {<<u, "mid">> : u \in Stems}

re_render ==
    \E midi_filename \in MidiFilenames :
       \E instrument \in Instruments : ReRenderRequest(midi_filename, instrument)

NextSession == upload_sample \/ upload_vocal_session \/ render \/ re_render

InitSession ==
    /\ PipelineIdle /\ RenderIdle /\ NoFiles /\ ChordsIdle /\ ConcurrentIdle /\ SegmenterIdle /\ SessionIdle

SpecSession == InitSession /\ [][NextSession]_vars

\* every reply is one the handlers can give
SessionTypeOK ==
    /\ http # <<>> => http.status \in {200, 400, 404, 500}
    /\ \A k \in DOMAIN session : Len(session[k]) <= 1

\* ---------------------------------------------------------------------
\* The custom sample that was never uploaded (specification SpecSession)
\* ---------------------------------------------------------------------

\* C30: when a MIDI file is available and no one-shot sample has been
\* uploaded, a /render or a /re-render request with the instrument
\* "Custom Sample" is answered with status 400 and the detail "No sample
\* uploaded. Upload a one-shot sample first.", and session['rendered_path']
\* is what it was.
C30_NoSampleIs400 ==
    [][/\ session.sample_path = NoPath
       /\ \/ Exists(session.midi_path) /\ RenderRequest("Custom Sample")
          \/ \E f \in MidiFilenames : Exists(<<f>>) /\ ReRenderRequest(f, "Custom Sample")
       => /\ http' = HttpReply(400, NoSampleDetail)
          /\ session'.rendered_path = session.rendered_path]_vars

====
